---- MODULE Spec2Model ----
(***************************************************************************)
(* A model of mylog's interactive log pager: the line index mapper        *)
(* (log_pager/utils.rs), the log parser and writer (log_item.rs), the     *)
(* render buffer builder and the two pager state machines                 *)
(* (log_pager/single_date_pager.rs, log_pager/paging_all_pager.rs).       *)
(*                                                                         *)
(* Text is a sequence of characters, each a one-element string.  A        *)
(* terminal escape sequence written by crossterm is one element of the    *)
(* text: it is not whitespace and has display width 0.  A calendar date   *)
(* is a small integer; "%Y-%m-%d" prints it as the two characters "D" d   *)
(* and "%H:%M" prints a minute of the day as the two characters "T" m.    *)
(* Rust indexes from 0 and so do all line and character indexes here;     *)
(* TLA+ sequences index from 1, hence the +1 at each subscript.           *)
(***************************************************************************)
EXTENDS Integers, Sequences, FiniteSets, TLC

VARIABLES
    pager,          \* the fields of the SingleDatePager / PagingAllPager
    files,          \* the log directory: calendar date -> file text or NoFile
    last,           \* history: the event handled last and the view before it
    last2,          \* history: the view before the last two events (resizes)
    lines_arg,      \* mapper check: the buffer given to the mapper
    index_arg,      \* mapper check: the line index or character offset given
    mapper_op,      \* mapper check: the function applied
    mapper_result,  \* mapper check: what it returned
    text_arg,       \* parser check: the file text given to the parser
    items_arg,      \* parser check: the entries given to the writer
    parser_op,      \* parser check: the function applied
    parser_result,  \* parser check: what it returned
    command_arg,    \* command check: the text of the command buffer
    command_op,     \* command check: the function applied
    command_result, \* command check: what it returned
    twins,          \* pager comparison: a single date and an all days pager
    directory       \* aggregate check: a log directory and what was read

vars == <<pager, files, last, last2, lines_arg, index_arg, mapper_op,
          mapper_result, text_arg, items_arg, parser_op, parser_result,
          command_arg, command_op, command_result, twins, directory>>

pagerVars == <<pager, files, last, last2>>
mapperVars == <<lines_arg, index_arg, mapper_op, mapper_result>>
parserVars == <<text_arg, items_arg, parser_op, parser_result>>
commandVars == <<command_arg, command_op, command_result>>

(***************************************************************************)
(* Bounds.                                                                 *)
(***************************************************************************)
MaxTextLines == 3    \* lines of a file text given to the parser
MaxItems == 2        \* entries given to the writer

(***************************************************************************)
(* Option<T> and small helpers.                                            *)
(***************************************************************************)
None == <<>>
Some(x) == <<x>>
is_some(o) == o # None
unwrap(o) == o[1]
unwrap_or(o, d) == IF o = None THEN d ELSE o[1]
min(a, b) == IF a <= b THEN a ELSE b

RECURSIVE concat(_)
concat(seqs) == IF seqs = <<>> THEN <<>> ELSE Head(seqs) \o concat(Tail(seqs))

(***************************************************************************)
(* Characters.                                                             *)
(***************************************************************************)
WhitespaceChars == {" ", "\n", "\r", "\t"}
is_whitespace(c) == c \in WhitespaceChars

\* line.chars().filter(|c| !c.is_whitespace()).count()
non_whitespace_count(line) ==
    Cardinality({i \in 1..Len(line) : ~is_whitespace(line[i])})

(***************************************************************************)
(* Line Index Mapper (log_pager/utils.rs).                                 *)
(***************************************************************************)
\* the loop of get_char_index_by_line_index over lines.iter().take(line_index)
RECURSIVE char_index_loop(_, _, _, _)
char_index_loop(lines, line_index, i, current_char_index) ==
    IF i >= line_index \/ i >= Len(lines)
    THEN current_char_index
    ELSE char_index_loop(lines, line_index, i + 1,
             current_char_index + non_whitespace_count(lines[i + 1]))

get_char_index_by_line_index(lines, line_index) ==
    char_index_loop(lines, line_index, 0, 0)

\* the loop of get_line_index_by_char_index over lines.iter().enumerate()
RECURSIVE line_index_loop(_, _, _, _)
line_index_loop(lines, char_index, line_index, current_char_index) ==
    IF line_index >= Len(lines)
    THEN None
    ELSE LET count == current_char_index
                        + non_whitespace_count(lines[line_index + 1])
         IN  IF count > char_index
             THEN Some(line_index)
             ELSE line_index_loop(lines, char_index, line_index + 1, count)

\* a variant that tests `count >= char_index`: it answers with the line
\* that ends just before the character
get_line_index_inclusive(lines, char_index) ==
    line_index_loop(lines, char_index - 1, 0, 0)

get_line_index_by_char_index(lines, char_index) ==
    line_index_loop(lines, char_index, 0, 0)

(***************************************************************************)
(* Strings (the std::str functions the parser uses).                       *)
(***************************************************************************)
\* s.find(c): the index of the first occurrence
find(s, c) ==
    LET hits == {i \in 1..Len(s) : s[i] = c}
    IN  IF hits = {} THEN None
        ELSE Some((CHOOSE i \in hits : \A j \in hits : i <= j) - 1)

starts_with(s, c) == Len(s) > 0 /\ s[1] = c

RECURSIVE trim_start(_)
trim_start(s) ==
    IF s # <<>> /\ is_whitespace(Head(s)) THEN trim_start(Tail(s)) ELSE s

RECURSIVE trim_end(_)
trim_end(s) ==
    IF s # <<>> /\ is_whitespace(s[Len(s)])
    THEN trim_end(SubSeq(s, 1, Len(s) - 1)) ELSE s

trim(s) == trim_end(trim_start(s))

\* one line of str::lines(): a trailing "\r" belongs to the line ending
strip_cr(line) ==
    IF line # <<>> /\ line[Len(line)] = "\r"
    THEN SubSeq(line, 1, Len(line) - 1) ELSE line

\* str::lines(): split at "\n"; a final empty piece is not a line
RECURSIVE split_lines(_, _)
split_lines(s, current) ==
    IF s = <<>>
    THEN IF current = <<>> THEN <<>> ELSE <<strip_cr(current)>>
    ELSE IF Head(s) = "\n"
         THEN <<strip_cr(current)>> \o split_lines(Tail(s), <<>>)
         ELSE split_lines(Tail(s), Append(current, Head(s)))

str_lines(s) == split_lines(s, <<>>)

(***************************************************************************)
(* Timestamps (chrono::NaiveDateTime) and their "%Y-%m-%d %H:%M" text.     *)
(***************************************************************************)
Digits == <<"0", "1", "2", "3", "4", "5", "6", "7", "8", "9">>
DigitChar(n) == Digits[n + 1]
DigitValue(c) == (CHOOSE i \in 1..10 : Digits[i] = c) - 1
IsDigit(c) == \E i \in 1..10 : Digits[i] = c

\* date.format("%Y-%m-%d")
format_date(date) == <<"D", DigitChar(date)>>

\* date_time.format("%Y-%m-%d %H:%M"): the seconds are not printed
format_date_time(date_time) ==
    format_date(date_time.date) \o <<" ", "T", DigitChar(date_time.minute)>>

\* NaiveDate::parse_from_str(s, "%Y-%m-%d"); there is no date 0
parse_date(s) ==
    IF Len(s) = 2 /\ s[1] = "D" /\ IsDigit(s[2]) /\ DigitValue(s[2]) >= 1
    THEN Some(DigitValue(s[2])) ELSE None

\* NaiveDateTime::parse_from_str(s, "%Y-%m-%d %H:%M")
parse_date_time(s) ==
    IF /\ Len(s) = 5
       /\ is_some(parse_date(SubSeq(s, 1, 2)))
       /\ s[3] = " " /\ s[4] = "T" /\ IsDigit(s[5])
    THEN Some([date |-> unwrap(parse_date(SubSeq(s, 1, 2))),
               minute |-> DigitValue(s[5]), second |-> 0])
    ELSE None

(***************************************************************************)
(* LogItem and LogItemList (log_item.rs).                                  *)
(***************************************************************************)
\* LogItem::new
LogItem_new(date_time, content) ==
    [date_time |-> date_time, content |-> trim(content)]

\* impl Display for LogItem
LogItem_fmt(item) ==
    <<"[">> \o format_date_time(item.date_time) \o <<"]", " ">>
        \o item.content \o <<"\n">>

\* impl FromStr for LogItem: Some(item), or None for Err(DateNotFound)
LogItem_from_str(s) ==
    LET idx == find(s, "]")
    IN  IF idx = None THEN None
        ELSE IF ~starts_with(s, "[") THEN None
        ELSE LET date_str == SubSeq(s, 2, unwrap(idx))
                 parsed == parse_date_time(date_str)
             IN  IF parsed = None THEN None
                 ELSE Some(LogItem_new(unwrap(parsed),
                               SubSeq(s, unwrap(idx) + 2, Len(s))))

\* the match on LogItem::from_str(&current_log) of LogItemList::from_str:
\* the accumulator is pushed and cleared only if it parses and is not empty
flush_current_log(acc) ==
    LET parsed == LogItem_from_str(acc.current_log)
    IN  IF parsed # None /\ acc.current_log # <<>>
        THEN [log_items |-> Append(acc.log_items, unwrap(parsed)),
              current_log |-> <<>>]
        ELSE acc

\* the body of `for line in s.lines()` of LogItemList::from_str
RECURSIVE from_str_loop(_, _)
from_str_loop(lines, acc) ==
    IF lines = <<>> THEN acc
    ELSE LET line == Head(lines)
             acc1 == IF LogItem_from_str(line) = None
                     THEN [acc EXCEPT !.current_log = Append(@, "\n")]
                     ELSE flush_current_log(acc)
         IN  from_str_loop(Tail(lines),
                 [acc1 EXCEPT !.current_log = @ \o line])

\* impl FromStr for LogItemList: it returns Ok(list) on every path
LogItemList_from_str(s) ==
    flush_current_log(
        from_str_loop(str_lines(s),
            [log_items |-> <<>>, current_log |-> <<>>])).log_items

(***************************************************************************)
(* Styling (crossterm::style::Stylize).  Each escape sequence is one       *)
(* element of the text.                                                    *)
(***************************************************************************)
FgGreen == "ESC[38;5;10m"
FgBlack == "ESC[38;5;0m"
FgReset == "ESC[39m"
BgWhite == "ESC[48;5;15m"
BgReset == "ESC[49m"
EscapeChars == {FgGreen, FgBlack, FgReset, BgWhite, BgReset}

\* s.green().to_string()
green(s) == <<FgGreen>> \o s \o <<FgReset>>

\* s.black().on_white().to_string()
black_on_white(s) == <<BgWhite, FgBlack>> \o s \o <<BgReset, FgReset>>

\* "\0".on_white().to_string().split_once('\0').unwrap().1
target_str == <<BgReset>>

\* line.contains(&target_str), for the one-element target_str
contains(line, target) == \E i \in 1..Len(line) : line[i] = target[1]

(***************************************************************************)
(* Search patterns (the regex crate).  A pattern is a literal text; "("    *)
(* opens a group that nothing closes, so a pattern with "(" in it does not *)
(* compile.  The empty pattern compiles and matches the empty string at    *)
(* every position.                                                         *)
(***************************************************************************)
\* regex::Regex::new(pattern): Some(regex) or None for Err
Regex_new(pattern) ==
    IF \E i \in 1..Len(pattern) : pattern[i] = "(" THEN None
    ELSE Some(pattern)

is_match_at(regex, s, i) ==
    /\ i + Len(regex) - 1 <= Len(s)
    /\ \A k \in 1..Len(regex) : s[i + k - 1] = regex[k]

\* regex.replace_all(s, |caps| caps[0].black().on_white().to_string()),
\* scanning s from position i: leftmost matches, none overlapping; an
\* empty match is replaced too, and the scan then moves on by one character
RECURSIVE replace_all_from(_, _, _)
replace_all_from(regex, s, i) ==
    IF regex = <<>>
    THEN IF i > Len(s) THEN black_on_white(<<>>)
         ELSE black_on_white(<<>>) \o <<s[i]>>
                  \o replace_all_from(regex, s, i + 1)
    ELSE IF i > Len(s) THEN <<>>
         ELSE IF is_match_at(regex, s, i)
              THEN black_on_white(regex)
                       \o replace_all_from(regex, s, i + Len(regex))
              ELSE <<s[i]>> \o replace_all_from(regex, s, i + 1)

\* log_pager/search.rs mark_search_result
mark_search_result(regex, s) == replace_all_from(regex, s, 1)

(***************************************************************************)
(* Word wrapping (textwrap::wrap with its default options): words are      *)
(* separated by spaces, a word wider than the line is broken, lines are    *)
(* filled first-fit, and escape sequences have no width.                   *)
(***************************************************************************)
ch_width(c) == IF c \in EscapeChars THEN 0 ELSE 1

display_width(s) == Cardinality({i \in 1..Len(s) : ch_width(s[i]) > 0})

\* a word is [word: its characters, whitespace: the spaces after it]
RECURSIVE find_words_loop(_, _, _)
find_words_loop(s, word, whitespace) ==
    IF s = <<>>
    THEN IF word = <<>> /\ whitespace = <<>> THEN <<>>
         ELSE <<[word |-> word, whitespace |-> whitespace]>>
    ELSE IF Head(s) = " "
         THEN find_words_loop(Tail(s), word, Append(whitespace, " "))
         ELSE IF whitespace # <<>>
              THEN <<[word |-> word, whitespace |-> whitespace]>>
                       \o find_words_loop(Tail(s), <<Head(s)>>, <<>>)
              ELSE find_words_loop(Tail(s), Append(word, Head(s)), <<>>)

find_words(line) == find_words_loop(line, <<>>, <<>>)

\* Word::break_apart: a piece ends before the visible character that would
\* make it wider than the line; the last piece keeps the whitespace
RECURSIVE break_apart_loop(_, _, _, _, _)
break_apart_loop(chars, whitespace, line_width, piece, width) ==
    IF chars = <<>>
    THEN IF piece = <<>> THEN <<>>
         ELSE <<[word |-> piece, whitespace |-> whitespace]>>
    ELSE LET ch == Head(chars)
         IN  IF ch_width(ch) = 0
             THEN break_apart_loop(Tail(chars), whitespace, line_width,
                      Append(piece, ch), width)
             ELSE IF width > 0 /\ width + ch_width(ch) > line_width
                  THEN <<[word |-> piece, whitespace |-> <<>>]>>
                           \o break_apart_loop(Tail(chars), whitespace,
                                  line_width, <<ch>>, ch_width(ch))
                  ELSE break_apart_loop(Tail(chars), whitespace, line_width,
                           Append(piece, ch), width + ch_width(ch))

RECURSIVE break_words(_, _)
break_words(words, line_width) ==
    IF words = <<>> THEN <<>>
    ELSE LET w == Head(words)
         IN  (IF display_width(w.word) > line_width
              THEN break_apart_loop(w.word, w.whitespace, line_width, <<>>, 0)
              ELSE <<w>>)
             \o break_words(Tail(words), line_width)

\* the text of one wrapped line: its words with their whitespace, without
\* the whitespace of the last word
line_text(words) ==
    concat([k \in 1..Len(words) |->
               IF k = Len(words) THEN words[k].word
               ELSE words[k].word \o words[k].whitespace])

\* wrap_first_fit: `start` is the first word of the current line, `width`
\* the width of the line so far
RECURSIVE wrap_first_fit(_, _, _, _, _)
wrap_first_fit(words, line_width, i, start, width) ==
    IF i > Len(words)
    THEN <<line_text(SubSeq(words, start, Len(words)))>>
    ELSE LET w == words[i]
             fragment_width == display_width(w.word)
         IN  IF width + fragment_width > line_width /\ i > start
             THEN <<line_text(SubSeq(words, start, i - 1))>>
                      \o wrap_first_fit(words, line_width, i + 1, i,
                             fragment_width + Len(w.whitespace))
             ELSE wrap_first_fit(words, line_width, i + 1, start,
                      width + fragment_width + Len(w.whitespace))

\* textwrap::wrap(line, width) for a text without "\n"
wrap(line, width) ==
    LET words == break_words(find_words(line), width)
    IN  IF words = <<>> THEN <<line_text(words)>>
        ELSE wrap_first_fit(words, width, 1, 1, 0)

(***************************************************************************)
(* The pager (log_pager/single_date_pager.rs, paging_all_pager.rs).  The   *)
(* record `self` holds the fields of the struct, `variant` telling which   *)
(* of the two structs it is, and three fields of the process around it:    *)
(* pc (where run() is), raw_mode, alternate_screen and cursor_hidden (the   *)
(* terminal).                                                              *)
(* A panic (a failed unwrap, expect, assert, index or todo!) ends the      *)
(* process: pc becomes "panicked" and nothing runs after it.               *)
(***************************************************************************)
UsizeModulus == 65536   \* usize arithmetic wraps at this value

panic(self) == [self EXCEPT !.pc = "panicked"]
panicked(self) == self.pc = "panicked"

total_content_lines(self) == Len(self.colored_lines)

\* fn begin_line_index, before its unwrap()
begin_line_index(self) ==
    get_line_index_by_char_index(self.colored_lines, self.begin_char_index)

set_begin_line_index(self, line_index) ==
    [self EXCEPT !.begin_char_index =
        get_char_index_by_line_index(self.colored_lines, line_index)]

\* Range::new; valid is the `begin <= end` of its assert!
Range_new(begin, end) ==
    [begin |-> begin, end |-> end, valid |-> begin <= end]

\* a variant of page_range whose end does not start from its begin
page_range_from_top(self) ==
    LET terminal_total_rows == self.terminal_total_rows
        page_range_begin == unwrap_or(begin_line_index(self), 0)
        page_range_end ==
            IF terminal_total_rows <= 2
            THEN 1
            ELSE min(total_content_lines(self), terminal_total_rows - 2)
    IN  Range_new(page_range_begin, page_range_end)

page_range(self) ==
    LET terminal_total_rows == self.terminal_total_rows
        page_range_begin == unwrap_or(begin_line_index(self), 0)
        page_range_end ==
            IF terminal_total_rows <= 2
            THEN page_range_begin + 1
            ELSE min(total_content_lines(self),
                     page_range_begin + terminal_total_rows - 2)
    IN  Range_new(page_range_begin, page_range_end)

\* SingleDatePager::mark_search_result: the pattern is compiled at each use
SingleDatePager_mark_search_result(self, s) ==
    LET regex == Regex_new(self.search_pattern)
    IN  IF regex = None THEN None
        ELSE Some(mark_search_result(unwrap(regex), s))

SingleDatePager_highlight_log_item(self, log_item) ==
    LET date_str == <<"[">> \o format_date_time(log_item.date_time) \o <<"]">>
        content == unwrap_or(
            SingleDatePager_mark_search_result(self, log_item.content),
            log_item.content)
    IN  green(date_str) \o <<" ">> \o content

\* PagingAllPager::highlight_log_item: search_pattern is an Option<Regex>
PagingAllPager_highlight_log_item(self, log_item) ==
    LET date_str == <<"[">> \o format_date_time(log_item.date_time) \o <<"]">>
        new_content ==
            IF self.search_pattern # None
            THEN mark_search_result(unwrap(self.search_pattern),
                                    log_item.content)
            ELSE log_item.content
    IN  green(date_str) \o <<" ">> \o new_content

highlight_log_item(self, log_item) ==
    IF self.variant = "single"
    THEN SingleDatePager_highlight_log_item(self, log_item)
    ELSE PagingAllPager_highlight_log_item(self, log_item)

\* the lines that update_colored_lines appends for one log item
item_lines(self, item) ==
    LET lines == str_lines(highlight_log_item(self, item))
    IN  concat([k \in 1..Len(lines) |->
                   wrap(lines[k], self.terminal_total_cols)])

update_colored_lines(self) ==
    [self EXCEPT !.colored_lines =
        concat([k \in 1..Len(self.log_item_list) |->
                   item_lines(self, self.log_item_list[k])])]

\* a variant of resize that keeps the number of the top line, not the anchor
resize_keeping_line_number(self, columns, rows) ==
    set_begin_line_index(
        update_colored_lines(
            [self EXCEPT !.terminal_total_cols = columns,
                         !.terminal_total_rows = rows]),
        page_range(self).begin)

resize(self, columns, rows) ==
    update_colored_lines(
        [self EXCEPT !.terminal_total_cols = columns,
                     !.terminal_total_rows = rows])

\* a variant of next_line that stops one line too late
next_line_past_end(self) ==
    LET range == page_range(self)
    IN  IF ~range.valid THEN panic(self)
        ELSE IF range.end > total_content_lines(self) THEN self
        ELSE set_begin_line_index(self, range.begin + 1)

next_line(self) ==
    LET range == page_range(self)
    IN  IF ~range.valid THEN panic(self)
        ELSE IF range.end >= total_content_lines(self) THEN self
        ELSE set_begin_line_index(self, range.begin + 1)

prev_line(self) ==
    LET range == page_range(self)
    IN  IF ~range.valid THEN panic(self)
        ELSE IF range.begin = 0 THEN self
        ELSE set_begin_line_index(self, range.begin - 1)

goto_page_begin(self) == set_begin_line_index(self, 0)

\* `total - end` and `begin + diff` are usize arithmetic: with
\* overflow_checks (a debug build) an overflow panics, without (a release
\* build) it wraps
goto_page_end(self, overflow_checks) ==
    LET original_page_range == page_range(self)
        total == total_content_lines(self)
        diff == (total - original_page_range.end) % UsizeModulus
        sum == original_page_range.begin + diff
    IN  IF ~original_page_range.valid THEN panic(self)
        ELSE IF overflow_checks
                  /\ (total < original_page_range.end \/ sum >= UsizeModulus)
        THEN panic(self)
        ELSE set_begin_line_index(self, sum % UsizeModulus)

(***************************************************************************)
(* The log directory and the calendar.                                     *)
(***************************************************************************)
MinDay == 1          \* the earliest date the model visits
Today == 2           \* get_today_date(), fixed during a session
MaxDay == 3          \* the latest date the model visits
Days == MinDay..MaxDay

NarrowCols == 3      \* the terminal widths a resize can report
WideCols == 7
ShortRows == 2       \* the terminal heights a resize can report
TallRows == 4
\* (columns, rows) of the terminal: a small one and a large one
Sizes == {<<NarrowCols, ShortRows>>, <<WideCols, TallRows>>}
Widths == {size[1] : size \in Sizes}

\* the patterns a user types, character by character: one that matches,
\* one that does not compile and one that matches nothing
SearchTexts == { <<"a">>, <<"(">>, <<"q">> }
SearchPrefixes ==
    UNION {{SubSeq(t, 1, n) : n \in 0..Len(t)} : t \in SearchTexts}
SearchChars == {"a", "(", "q"}

at(date, minute) == [date |-> date, minute |-> minute, second |-> 0]

\* a day with two entries, the second with an empty line in its text
LongFile ==
    LogItem_fmt(LogItem_new(at(2, 1), <<"a", "b", " ", "a">>))
        \o LogItem_fmt(LogItem_new(at(2, 2), <<"a", "\n", "\n", "b">>))

\* a day with one entry
ShortFile == LogItem_fmt(LogItem_new(at(3, 1), <<"b", " ", "b">>))

\* the directory when the pager starts; a date without a file maps to None
InitialFiles ==
    [d \in Days |-> IF d = 2 THEN Some(LongFile)
                    ELSE IF d = 3 THEN Some(ShortFile)
                    ELSE None]

\* what the external editor can leave in today's file; the file of another
\* date it leaves as it found it
EditTexts == {LongFile, ShortFile}

\* the commands a user types, character by character
CommandTexts ==
    { <<"d", "a", "t", "e">>,
      <<"d", "a", "t", "e", " ", "D", "3">>,
      <<"d", "a", "t", "e", " ", "x">>,
      <<"q">> }

CommandPrefixes ==
    UNION {{SubSeq(t, 1, n) : n \in 0..Len(t)} : t \in CommandTexts}
CommandChars == {"d", "a", "t", "e", " ", "D", "3", "x", "q"}

\* log_config::construct_log_file_path, as the file name
construct_log_file_path(date) == format_date(date) \o <<".log">>

\* std::fs::read_to_string(&file_path): Some(text), or None for Err
read_to_string(fs, date) == fs[date]

(***************************************************************************)
(* Messages of the bottom line.                                            *)
(***************************************************************************)
NoMessage == <<>>
AlreadyTodayMessage == <<"This is already today's log">>
MissingFileMessage(date) ==
    <<"'">> \o construct_log_file_path(date) \o <<"' doesn't exist">>

show_error_message(self, msg) == [self EXCEPT !.bottom_message = msg]

\* a variant of clear_error_message that keeps the message
keep_error_message(self) == self

\* only the SingleDatePager has a bottom message
clear_error_message(self) ==
    IF self.variant = "single"
    THEN [self EXCEPT !.bottom_message = NoMessage] ELSE self

(***************************************************************************)
(* Loading.                                                                *)
(***************************************************************************)
SingleDatePager_update_log_items(self, fs) ==
    LET file == read_to_string(fs, self.date)
        self1 == IF file = None /\ self.verbose
                 THEN show_error_message(self, MissingFileMessage(self.date))
                 ELSE self
        file_content == unwrap_or(file, <<>>)
    IN  update_colored_lines(
            [self1 EXCEPT !.log_item_list = LogItemList_from_str(file_content)])

\* PagingAllPager::all_date followed by sort(): the dates that have a file
RECURSIVE all_date_sorted(_, _)
all_date_sorted(fs, d) ==
    IF d > MaxDay THEN <<>>
    ELSE (IF fs[d] # None THEN <<d>> ELSE <<>>) \o all_date_sorted(fs, d + 1)

\* PagingAllPager::content
content(fs) ==
    LET all_date == all_date_sorted(fs, MinDay)
    IN  concat([k \in 1..Len(all_date) |->
                   unwrap_or(read_to_string(fs, all_date[k]), <<>>)])

PagingAllPager_update_log_items(self, fs) ==
    update_colored_lines(
        [self EXCEPT !.log_item_list = LogItemList_from_str(content(fs))])

\* a variant of update_log_items that keeps the lines built before the load
update_log_items_keeping_lines(self, fs) ==
    [(IF self.variant = "single"
      THEN SingleDatePager_update_log_items(self, fs)
      ELSE PagingAllPager_update_log_items(self, fs))
        EXCEPT !.colored_lines = self.colored_lines]

update_log_items(self, fs) ==
    IF self.variant = "single"
    THEN SingleDatePager_update_log_items(self, fs)
    ELSE PagingAllPager_update_log_items(self, fs)

\* a variant of next_day without the guard on today's date
next_day_unguarded(self, fs) ==
    [update_log_items([self EXCEPT !.date = @ + 1], fs)
        EXCEPT !.begin_char_index = 0]

next_day(self, fs) ==
    IF self.date = Today
    THEN show_error_message(self, AlreadyTodayMessage)
    ELSE [update_log_items([self EXCEPT !.date = @ + 1], fs)
             EXCEPT !.begin_char_index = 0]

\* a variant of prev_day that keeps the anchor
prev_day_keeping_anchor(self, fs) ==
    update_log_items([self EXCEPT !.date = @ - 1], fs)

prev_day(self, fs) ==
    [update_log_items([self EXCEPT !.date = @ - 1], fs)
        EXCEPT !.begin_char_index = 0]

(***************************************************************************)
(* Search.                                                                 *)
(***************************************************************************)
\* the first line at or after lines_to_skip that contains target_str
first_match_from(lines, lines_to_skip) ==
    LET hits == {i \in lines_to_skip..(Len(lines) - 1) :
                    contains(lines[i + 1], target_str)}
    IN  IF hits = {} THEN None
        ELSE Some(CHOOSE i \in hits : \A j \in hits : i <= j)

\* the last line before lines_to_take that contains target_str
last_match_before(lines, lines_to_take) ==
    LET hits == {i \in 0..(min(lines_to_take, Len(lines)) - 1) :
                    contains(lines[i + 1], target_str)}
    IN  IF hits = {} THEN None
        ELSE Some(CHOOSE i \in hits : \A j \in hits : i >= j)

\* impl Search for T: Pager (log_pager/search.rs)
Search_search_next(self, skip_current_line) ==
    LET begin == begin_line_index(self)
    IN  IF begin = None THEN panic(self)
        ELSE LET lines_to_skip ==
                     unwrap(begin) + (IF skip_current_line THEN 1 ELSE 0)
                 found == first_match_from(self.colored_lines, lines_to_skip)
             IN  IF found = None THEN self
                 ELSE set_begin_line_index(self, unwrap(found))

\* SingleDatePager::search_next always skips the current line
SingleDatePager_search_next(self) ==
    LET begin == begin_line_index(self)
    IN  IF begin = None THEN panic(self)
        ELSE LET lines_to_skip == unwrap(begin) + 1
                 found == first_match_from(self.colored_lines, lines_to_skip)
             IN  IF found = None THEN self
                 ELSE set_begin_line_index(self, unwrap(found))

\* search_prev is the same code in search.rs and in SingleDatePager
search_prev(self) ==
    LET begin == begin_line_index(self)
    IN  IF begin = None THEN panic(self)
        ELSE LET found == last_match_before(self.colored_lines, unwrap(begin))
             IN  IF found = None THEN self
                 ELSE set_begin_line_index(self, unwrap(found))

\* a variant of enter_view_mode that also goes back to the first line
enter_view_mode_at_top(self) ==
    IF self.variant = "single"
    THEN [self EXCEPT !.command_buffer = <<>>, !.mode = "View",
                      !.begin_char_index = 0]
    ELSE [self EXCEPT !.mode = "View", !.begin_char_index = 0]

\* SingleDatePager::enter_view_mode clears the command buffer,
\* PagingAllPager::enter_view_mode has none
enter_view_mode(self) ==
    IF self.variant = "single"
    THEN [self EXCEPT !.command_buffer = <<>>, !.mode = "View"]
    ELSE [self EXCEPT !.mode = "View"]

enter_command_mode(self) == [self EXCEPT !.mode = "Command"]
enter_search_mode(self) == [self EXCEPT !.mode = "Search"]
\* a variant of exit that leaves the flag alone
exit_ignored(self) == self

exit(self) == [self EXCEPT !.is_exit = TRUE]

SingleDatePager_confirm_search(self) ==
    SingleDatePager_search_next(
        enter_view_mode(
            update_colored_lines(
                [self EXCEPT !.search_pattern = self.search_pattern_input,
                             !.search_pattern_input = <<>>])))

PagingAllPager_confirm_search(self) ==
    Search_search_next(
        enter_view_mode(
            update_colored_lines(
                [self EXCEPT !.search_pattern =
                                 Regex_new(self.search_pattern_input),
                             !.search_pattern_input = <<>>])),
        FALSE)

confirm_search(self) ==
    IF self.variant = "single"
    THEN SingleDatePager_confirm_search(self)
    ELSE PagingAllPager_confirm_search(self)

(***************************************************************************)
(* Commands (log_pager/command.rs).                                        *)
(***************************************************************************)
\* s.split_whitespace().collect()
RECURSIVE split_whitespace_loop(_, _)
split_whitespace_loop(s, current) ==
    IF s = <<>>
    THEN IF current = <<>> THEN <<>> ELSE <<current>>
    ELSE IF is_whitespace(Head(s))
         THEN (IF current = <<>> THEN <<>> ELSE <<current>>)
                  \o split_whitespace_loop(Tail(s), <<>>)
         ELSE split_whitespace_loop(Tail(s), Append(current, Head(s)))

split_whitespace(s) == split_whitespace_loop(s, <<>>)

\* a variant of Command_from_str that takes every buffer of two or more words
\* starting with date as a date command
Command_from_str_lenient(s) ==
    LET parts == split_whitespace(s)
    IN  IF parts = <<>> THEN [kind |-> "None"]
        ELSE IF parts[1] = <<"d", "a", "t", "e">>
             THEN IF Len(parts) = 1 THEN [kind |-> "ShowDate"]
                  ELSE [kind |-> "SetDate", date_str |-> parts[2]]
             ELSE [kind |-> "None"]

\* impl FromStr for Command
Command_from_str(s) ==
    LET parts == split_whitespace(s)
    IN  IF parts = <<>> THEN [kind |-> "None"]
        ELSE IF parts[1] = <<"d", "a", "t", "e">>
             THEN IF Len(parts) = 1 THEN [kind |-> "ShowDate"]
                  ELSE IF Len(parts) = 2
                       THEN [kind |-> "SetDate", date_str |-> parts[2]]
                       ELSE [kind |-> "None"]
             ELSE [kind |-> "None"]

\* a variant of execute_command that goes to today on a token that is no date
execute_command_to_today(self, fs) ==
    LET command == Command_from_str(self.command_buffer)
        done == IF command.kind = "ShowDate" THEN panic(self)
                ELSE IF command.kind = "SetDate"
                THEN update_log_items(
                         [self EXCEPT !.date =
                             unwrap_or(parse_date(command.date_str), Today)],
                         fs)
                ELSE self
    IN  IF panicked(done) THEN done
        ELSE enter_view_mode([done EXCEPT !.command_buffer = <<>>])

\* SingleDatePager::execute_command; Command::ShowDate is todo!()
execute_command(self, fs) ==
    LET command == Command_from_str(self.command_buffer)
        done == IF command.kind = "ShowDate" THEN panic(self)
                ELSE IF command.kind = "SetDate"
                          /\ parse_date(command.date_str) # None
                THEN update_log_items(
                         [self EXCEPT !.date =
                             unwrap(parse_date(command.date_str))], fs)
                ELSE self
    IN  IF panicked(done) THEN done
        ELSE enter_view_mode([done EXCEPT !.command_buffer = <<>>])

(***************************************************************************)
(* Rendering.  What is drawn is a function of the fields; the model keeps  *)
(* only whether drawing completes and whether it has hidden the cursor.    *)
(***************************************************************************)
\* print_colored_file_content indexes colored_lines[i] for every i of the
\* page range; the cursor::Hide queued first reaches the terminal with the
\* flush that ends print_pager
print_pager(self) ==
    LET range == page_range(self)
        flushed == [self EXCEPT !.cursor_hidden = TRUE]
    IN  IF self.terminal_total_rows = 0 THEN flushed
        ELSE IF ~range.valid THEN panic(self)
        ELSE IF \E i \in range.begin..(range.end - 1) :
                    i >= total_content_lines(self)
        THEN panic(self)
        ELSE flushed

\* the print_pager().expect(..) that ends every handler
then_print(self) == IF panicked(self) THEN self ELSE print_pager(self)

(***************************************************************************)
(* Terminal events (crossterm::event::Event) and what each mode reads in   *)
(* them (log_pager/events).  A key event has a code, the character for     *)
(* KeyCode::Char, and a set of modifiers; which modifiers a terminal sends *)
(* with a key is the terminal's choice.                                    *)
(***************************************************************************)
ViewKeyChars == {"j", "k", "g", "G", "l", "h", "q", "e", "n", "N", ":", "/"}
KeyChars == ViewKeyChars \cup CommandChars \cup SearchChars \cup {"u"}
SpecialKeys ==
    {"Esc", "Enter", "Backspace", "Tab", "Down", "Up", "Left", "Right"}

CrosstermEvents ==
    [type : {"Key"}, code : KeyChars \cup SpecialKeys,
     modifiers : SUBSET {"SHIFT", "CONTROL"}]
    \cup {[type |-> "Resize", columns |-> size[1], rows |-> size[2]] :
              size \in Sizes}
    \cup {[type |-> "FocusGained"]}

\* ViewEvent::from_crossterm_event: the modifiers are not looked at
ViewEvent_from_crossterm_event(crossterm_event) ==
    IF crossterm_event.type = "Key"
    THEN LET code == crossterm_event.code
         IN  IF code = "j" THEN [kind |-> "NextLine"]
             ELSE IF code = "k" THEN [kind |-> "PrevLine"]
             ELSE IF code = "g" THEN [kind |-> "GotoPageBegin"]
             ELSE IF code = "G" THEN [kind |-> "GotoPageEnd"]
             ELSE IF code = "l" THEN [kind |-> "NextDay"]
             ELSE IF code = "h" THEN [kind |-> "PrevDay"]
             ELSE IF code = "q" THEN [kind |-> "Quit"]
             ELSE IF code = "e" THEN [kind |-> "Edit"]
             ELSE IF code = "n" THEN [kind |-> "SearchNext"]
             ELSE IF code = "N" THEN [kind |-> "SearchPrev"]
             ELSE IF code = ":" THEN [kind |-> "EnterCommandMode"]
             ELSE IF code = "/" THEN [kind |-> "EnterSearchMode"]
             ELSE [kind |-> "None"]
    ELSE IF crossterm_event.type = "Resize"
    THEN [kind |-> "Resize", columns |-> crossterm_event.columns,
          rows |-> crossterm_event.rows]
    ELSE [kind |-> "None"]

\* a variant of CommandEvent::from_crossterm_event that does not know Esc
CommandEvent_ignoring_esc(crossterm_event) ==
    IF crossterm_event.type = "Key"
    THEN LET code == crossterm_event.code
         IN  IF crossterm_event.modifiers = {}
             THEN IF code \in KeyChars THEN [kind |-> "Char", c |-> code]
                  ELSE IF code = "Enter" THEN [kind |-> "Execute"]
                  ELSE IF code = "Backspace" THEN [kind |-> "Backspace"]
                  ELSE [kind |-> "None"]
             ELSE IF "CONTROL" \in crossterm_event.modifiers
             THEN IF code = "u" THEN [kind |-> "ClearLine"]
                  ELSE [kind |-> "None"]
             ELSE [kind |-> "None"]
    ELSE [kind |-> "None"]

\* CommandEvent::from_crossterm_event
CommandEvent_from_crossterm_event(crossterm_event) ==
    IF crossterm_event.type = "Key"
    THEN LET code == crossterm_event.code
         IN  IF crossterm_event.modifiers = {}
             THEN IF code = "Esc" THEN [kind |-> "Cancel"]
                  ELSE IF code \in KeyChars THEN [kind |-> "Char", c |-> code]
                  ELSE IF code = "Enter" THEN [kind |-> "Execute"]
                  ELSE IF code = "Backspace" THEN [kind |-> "Backspace"]
                  ELSE [kind |-> "None"]
             ELSE IF "CONTROL" \in crossterm_event.modifiers
             THEN IF code = "u" THEN [kind |-> "ClearLine"]
                  ELSE [kind |-> "None"]
             ELSE [kind |-> "None"]
    ELSE [kind |-> "None"]

\* SearchEvent::from_crossterm_event
SearchEvent_from_crossterm_event(crossterm_event) ==
    IF crossterm_event.type = "Key"
    THEN LET code == crossterm_event.code
         IN  IF crossterm_event.modifiers = {}
             THEN IF code = "Esc" THEN [kind |-> "Cancel"]
                  ELSE IF code \in KeyChars THEN [kind |-> "Char", c |-> code]
                  ELSE IF code = "Enter" THEN [kind |-> "Confirm"]
                  ELSE IF code = "Backspace" THEN [kind |-> "Backspace"]
                  ELSE [kind |-> "None"]
             ELSE IF "CONTROL" \in crossterm_event.modifiers
             THEN IF code = "u" THEN [kind |-> "ClearLine"]
                  ELSE [kind |-> "None"]
             ELSE [kind |-> "None"]
    ELSE [kind |-> "None"]

\* the events each mode can be handed
ViewEventsRead ==
    {ViewEvent_from_crossterm_event(e) : e \in CrosstermEvents}
CommandEventsRead ==
    {CommandEvent_from_crossterm_event(e) : e \in CrosstermEvents}
SearchEventsRead ==
    {SearchEvent_from_crossterm_event(e) : e \in CrosstermEvents}

(***************************************************************************)
(* Event handlers.  An event is a record: kind, and for a Resize the new   *)
(* size, for a Char the character, for an Edit what the editor did.        *)
(***************************************************************************)
\* utils::terminal::restore_terminal
restore_terminal(self) ==
    [self EXCEPT !.alternate_screen = FALSE, !.cursor_hidden = FALSE]

\* SingleDatePager::edit; fs is the directory once the editor has exited,
\* editor_ok whether edit::edit_file returned Ok
edit(self, fs, editor_ok) ==
    IF ~editor_ok THEN panic(restore_terminal(self))
    ELSE [update_log_items(restore_terminal(self), fs)
             EXCEPT !.alternate_screen = TRUE]

SingleDatePager_handle_view_event(self, event, fs) ==
    LET s0 == clear_error_message(self)
        k == event.kind
    IN  then_print(
            IF k = "NextDay" THEN next_day(s0, fs)
            ELSE IF k = "PrevDay" THEN prev_day(s0, fs)
            ELSE IF k = "NextLine" THEN next_line(s0)
            ELSE IF k = "PrevLine" THEN prev_line(s0)
            ELSE IF k = "GotoPageBegin" THEN goto_page_begin(s0)
            ELSE IF k = "GotoPageEnd"
                 THEN goto_page_end(s0, event.overflow_checks)
            ELSE IF k = "Quit" THEN exit(s0)
            ELSE IF k = "Edit" THEN edit(s0, fs, event.editor_ok)
            ELSE IF k = "SearchNext" THEN SingleDatePager_search_next(s0)
            ELSE IF k = "SearchPrev" THEN search_prev(s0)
            ELSE IF k = "Resize" THEN resize(s0, event.columns, event.rows)
            ELSE IF k = "EnterCommandMode" THEN enter_command_mode(s0)
            ELSE IF k = "EnterSearchMode" THEN enter_search_mode(s0)
            ELSE s0)

\* a variant of PagingAllPager::handle_view_event that enters Command mode
PagingAllPager_handle_view_event_with_command(self, event) ==
    LET k == event.kind
    IN  then_print(
            IF k = "NextLine" THEN next_line(self)
            ELSE IF k = "PrevLine" THEN prev_line(self)
            ELSE IF k = "Quit" THEN exit(self)
            ELSE IF k = "Resize" THEN resize(self, event.columns, event.rows)
            ELSE IF k = "GotoPageBegin" THEN goto_page_begin(self)
            ELSE IF k = "GotoPageEnd"
                 THEN goto_page_end(self, event.overflow_checks)
            ELSE IF k = "EnterSearchMode" THEN enter_search_mode(self)
            ELSE IF k = "EnterCommandMode" THEN enter_command_mode(self)
            ELSE IF k = "SearchNext" THEN Search_search_next(self, TRUE)
            ELSE IF k = "SearchPrev" THEN search_prev(self)
            ELSE self)

PagingAllPager_handle_view_event(self, event) ==
    LET k == event.kind
    IN  then_print(
            IF k = "NextLine" THEN next_line(self)
            ELSE IF k = "PrevLine" THEN prev_line(self)
            ELSE IF k = "Quit" THEN exit(self)
            ELSE IF k = "Resize" THEN resize(self, event.columns, event.rows)
            ELSE IF k = "GotoPageBegin" THEN goto_page_begin(self)
            ELSE IF k = "GotoPageEnd"
                 THEN goto_page_end(self, event.overflow_checks)
            ELSE IF k = "EnterSearchMode" THEN enter_search_mode(self)
            ELSE IF k = "SearchNext" THEN Search_search_next(self, TRUE)
            ELSE IF k = "SearchPrev" THEN search_prev(self)
            ELSE self)

handle_view_event(self, event, fs) ==
    IF self.variant = "single"
    THEN SingleDatePager_handle_view_event(self, event, fs)
    ELSE PagingAllPager_handle_view_event(self, event)

pop(s) == SubSeq(s, 1, Len(s) - 1)

\* SingleDatePager::handle_command_event
handle_command_event(self, event, fs) ==
    LET s0 == clear_error_message(self)
        k == event.kind
    IN  then_print(
            IF k = "Execute" THEN execute_command(s0, fs)
            ELSE IF k = "Char"
                 THEN [s0 EXCEPT !.command_buffer = Append(@, event.c)]
            ELSE IF k = "Cancel" THEN enter_view_mode(s0)
            ELSE IF k = "Backspace"
                 THEN IF s0.command_buffer = <<>> THEN enter_view_mode(s0)
                      ELSE [s0 EXCEPT !.command_buffer = pop(@)]
            ELSE IF k = "ClearLine" THEN [s0 EXCEPT !.command_buffer = <<>>]
            ELSE s0)

\* handle_search_event, the same match in both pagers
handle_search_event(self, event) ==
    LET s0 == clear_error_message(self)
        k == event.kind
    IN  then_print(
            IF k = "Confirm" THEN confirm_search(s0)
            ELSE IF k = "Char"
                 THEN [s0 EXCEPT !.search_pattern_input = Append(@, event.c)]
            ELSE IF k = "Cancel" THEN enter_view_mode(s0)
            ELSE IF k = "Backspace"
                 THEN IF s0.search_pattern_input = <<>>
                      THEN enter_view_mode(s0)
                      ELSE [s0 EXCEPT !.search_pattern_input = pop(@)]
            ELSE IF k = "ClearLine"
                 THEN [s0 EXCEPT !.search_pattern_input = <<>>]
            ELSE s0)

(***************************************************************************)
(* Construction.                                                           *)
(***************************************************************************)
\* SingleDatePager::new followed by set_verbose
SingleDatePager_new(date, fs, columns, rows, verbose) ==
    LET ret == [variant |-> "single",
                date |-> date,
                verbose |-> FALSE,
                begin_char_index |-> 0,
                bottom_message |-> NoMessage,
                log_item_list |-> <<>>,
                terminal_total_rows |-> rows,
                terminal_total_cols |-> columns,
                colored_lines |-> <<>>,
                mode |-> "View",
                is_exit |-> FALSE,
                command_buffer |-> <<>>,
                search_pattern |-> <<>>,
                search_pattern_input |-> <<>>,
                pc |-> "new",
                raw_mode |-> FALSE,
                alternate_screen |-> FALSE,
                cursor_hidden |-> FALSE]
    IN  [resize(update_log_items(ret, fs), columns, rows)
            EXCEPT !.verbose = verbose]

\* PagingAllPager::new; it has no date, verbose flag, bottom message or
\* command buffer, and its search_pattern starts as Option::None
PagingAllPager_new(fs, columns, rows) ==
    LET ret == [variant |-> "all",
                date |-> 0,
                verbose |-> FALSE,
                begin_char_index |-> 0,
                bottom_message |-> NoMessage,
                log_item_list |-> <<>>,
                terminal_total_rows |-> rows,
                terminal_total_cols |-> columns,
                colored_lines |-> <<>>,
                mode |-> "View",
                is_exit |-> FALSE,
                command_buffer |-> <<>>,
                search_pattern |-> None,
                search_pattern_input |-> <<>>,
                pc |-> "new",
                raw_mode |-> FALSE,
                alternate_screen |-> FALSE,
                cursor_hidden |-> FALSE]
    IN  resize(update_log_items(ret, fs), columns, rows)

(***************************************************************************)
(* History: what the pager showed before the event handled last.           *)
(***************************************************************************)
is_visible(c) == ~is_whitespace(c) /\ ch_width(c) > 0

visible_count(line) == Cardinality({i \in 1..Len(line) : is_visible(line[i])})

RECURSIVE visible_before(_, _)
visible_before(lines, line_index) ==
    IF line_index = 0 \/ lines = <<>> THEN 0
    ELSE visible_count(Head(lines)) + visible_before(Tail(lines), line_index - 1)

\* the line that holds the visible character number v (from 0), -1 if none
RECURSIVE line_of_visible(_, _, _)
line_of_visible(lines, v, line_index) ==
    IF line_index >= Len(lines) THEN -1
    ELSE IF visible_count(lines[line_index + 1]) > v THEN line_index
    ELSE line_of_visible(lines, v - visible_count(lines[line_index + 1]),
                         line_index + 1)

top_line_index(self) == page_range(self).begin

top_line(self) ==
    IF top_line_index(self) < total_content_lines(self)
    THEN self.colored_lines[top_line_index(self) + 1] ELSE <<>>

\* the number, among the visible characters of the buffer, of the first
\* visible character of the top line; -1 if the top line has none
top_visible(self) ==
    IF visible_count(top_line(self)) = 0 THEN -1
    ELSE visible_before(self.colored_lines, top_line_index(self))

\* the events whose effect on the view is examined
ScrollEvents == {"NextLine", "PrevLine", "GotoPageBegin", "GotoPageEnd"}
RebuildEvents == {"Resize", "Confirm"}
DayEvents == {"NextDay", "PrevDay"}

\* the view before event ev; a field the event does not concern is blank,
\* and so is the name of an event that concerns none
snapshot(self, ev) ==
    [ev |-> IF ev \in ScrollEvents \cup RebuildEvents \cup DayEvents
            THEN ev ELSE "other",
     top |-> IF ev \in ScrollEvents \cup RebuildEvents
             THEN top_line_index(self) ELSE -1,
     end |-> IF ev \in ScrollEvents THEN page_range(self).end ELSE -1,
     total |-> IF ev \in ScrollEvents THEN total_content_lines(self) ELSE -1,
     anchor |-> IF ev \in ScrollEvents \cup RebuildEvents \cup DayEvents
                THEN self.begin_char_index ELSE -1,
     cols |-> IF ev = "Resize" THEN self.terminal_total_cols ELSE 0,
     date |-> IF ev \in DayEvents THEN self.date ELSE 0,
     vis |-> IF ev \in RebuildEvents THEN top_visible(self) ELSE -1,
     line |-> IF ev = "Resize" THEN top_line(self) ELSE <<>>,
     message |-> self.bottom_message]

NoView == [top |-> -1, cols |-> 0, line |-> <<>>]

(***************************************************************************)
(* The pager's run loop: Init is the pager after new() and set_verbose(),  *)
(* each action is one pass of the loop of run(), reading one event and     *)
(* handling it in the current mode.                                        *)
(***************************************************************************)
IdleMapper ==
    /\ lines_arg = <<>> /\ index_arg = 0
    /\ mapper_op = "idle" /\ mapper_result = None
IdleParser ==
    /\ text_arg = <<>> /\ items_arg = <<>>
    /\ parser_op = "idle" /\ parser_result = <<>>
IdleCommand ==
    /\ command_arg = <<>>
    /\ command_op = "idle" /\ command_result = <<>>
IdleTwins == twins = <<>>
IdleDirectory == directory = <<>>

Init ==
    /\ files = InitialFiles
    /\ \E size \in Sizes :
          \/ \E date \in Days, verbose \in BOOLEAN :
                pager = SingleDatePager_new(date, files, size[1], size[2],
                                            verbose)
          \/ pager = PagingAllPager_new(files, size[1], size[2])
    /\ last = snapshot(pager, "new")
    /\ last2 = NoView
    /\ IdleMapper /\ IdleParser /\ IdleCommand /\ IdleTwins
    /\ IdleDirectory

\* the history kept with every step: last2 remembers the view before two
\* consecutive resizes
Record(ev) ==
    /\ last' = snapshot(pager, ev)
    /\ last2' = IF ev = "Resize" /\ last.ev = "Resize"
                THEN [top |-> last.top, cols |-> last.cols, line |-> last.line]
                ELSE NoView
    /\ UNCHANGED <<mapperVars, parserVars, commandVars, twins, directory>>

\* run() up to its loop
Run ==
    /\ pager.pc = "new"
    /\ LET started == [pager EXCEPT !.raw_mode = TRUE,
                                    !.alternate_screen = TRUE]
           printed == print_pager(started)
       IN  pager' = IF panicked(printed) THEN printed
                    ELSE [printed EXCEPT !.pc = "loop"]
    /\ UNCHANGED files
    /\ Record("Run")

\* run() after its loop
Finish ==
    /\ pager.pc = "loop" /\ pager.is_exit
    /\ pager' = [restore_terminal(pager) EXCEPT !.raw_mode = FALSE,
                                                !.pc = "done"]
    /\ UNCHANGED files
    /\ Record("Finish")

Reading(mode) ==
    pager.pc = "loop" /\ ~pager.is_exit /\ pager.mode = mode

\* an event read in View mode that leaves the directory alone
View(event) ==
    /\ pager' = handle_view_event(pager, event, files)
    /\ UNCHANGED files
    /\ Record(event.kind)

NextDay ==
    /\ Reading("View")
    /\ pager.variant = "single" => pager.date = Today \/ pager.date < MaxDay
    /\ \E event \in ViewEventsRead :
          event.kind = "NextDay" /\ View(event)

PrevDay ==
    /\ Reading("View")
    /\ pager.variant = "single" => pager.date > MinDay
    /\ \E event \in ViewEventsRead :
          event.kind = "PrevDay" /\ View(event)

NextLine ==
    /\ Reading("View")
    /\ \E event \in ViewEventsRead :
          event.kind = "NextLine" /\ View(event)

PrevLine ==
    /\ Reading("View")
    /\ \E event \in ViewEventsRead :
          event.kind = "PrevLine" /\ View(event)

GotoPageBegin ==
    /\ Reading("View")
    /\ \E event \in ViewEventsRead :
          event.kind = "GotoPageBegin" /\ View(event)

GotoPageEnd ==
    /\ Reading("View")
    /\ \E event \in ViewEventsRead, overflow_checks \in BOOLEAN :
          /\ event.kind = "GotoPageEnd"
          /\ View([kind |-> "GotoPageEnd",
                   overflow_checks |-> overflow_checks])

Quit ==
    /\ Reading("View")
    /\ \E event \in ViewEventsRead :
          event.kind = "Quit" /\ View(event)

SearchNext ==
    /\ Reading("View")
    /\ \E event \in ViewEventsRead :
          event.kind = "SearchNext" /\ View(event)

SearchPrev ==
    /\ Reading("View")
    /\ \E event \in ViewEventsRead :
          event.kind = "SearchPrev" /\ View(event)

Resize ==
    /\ Reading("View")
    /\ \E event \in ViewEventsRead :
          event.kind = "Resize" /\ View(event)

EnterCommandMode ==
    /\ Reading("View")
    /\ \E event \in ViewEventsRead :
          event.kind = "EnterCommandMode" /\ View(event)

EnterSearchMode ==
    /\ Reading("View")
    /\ \E event \in ViewEventsRead :
          event.kind = "EnterSearchMode" /\ View(event)

\* any other key
ViewNone ==
    /\ Reading("View")
    /\ \E event \in ViewEventsRead :
          event.kind = "None" /\ View(event)

\* `e`: the editor runs on the file of the active date and may rewrite it;
\* the PagingAllPager ignores the key
Edit ==
    /\ Reading("View")
    /\ \E event \in ViewEventsRead : event.kind = "Edit"
    /\ \E editor_ok \in BOOLEAN :
       \E text \in IF pager.variant = "single" /\ editor_ok
                        /\ pager.date = Today
                   THEN EditTexts \cup {None} ELSE {None} :
          /\ files' = IF text = None THEN files
                      ELSE [files EXCEPT ![pager.date] = Some(text)]
          /\ pager' = handle_view_event(pager,
                          [kind |-> "Edit", editor_ok |-> editor_ok], files')
    /\ Record("Edit")

\* a key read in Command mode by the SingleDatePager
Command(event) ==
    /\ pager' = handle_command_event(pager, event, files)
    /\ UNCHANGED files
    /\ Record(event.kind)

CommandExecute ==
    /\ Reading("Command") /\ pager.variant = "single"
    /\ \E event \in CommandEventsRead :
          event.kind = "Execute" /\ Command(event)

CommandChar ==
    /\ Reading("Command") /\ pager.variant = "single"
    /\ \E event \in CommandEventsRead :
          /\ event.kind = "Char"
          /\ Append(pager.command_buffer, event.c) \in CommandPrefixes
          /\ Command(event)

CommandCancel ==
    /\ Reading("Command") /\ pager.variant = "single"
    /\ \E event \in CommandEventsRead :
          event.kind = "Cancel" /\ Command(event)

CommandBackspace ==
    /\ Reading("Command") /\ pager.variant = "single"
    /\ \E event \in CommandEventsRead :
          event.kind = "Backspace" /\ Command(event)

CommandClearLine ==
    /\ Reading("Command") /\ pager.variant = "single"
    /\ \E event \in CommandEventsRead :
          event.kind = "ClearLine" /\ Command(event)

CommandNone ==
    /\ Reading("Command") /\ pager.variant = "single"
    /\ \E event \in CommandEventsRead :
          event.kind = "None" /\ Command(event)

\* a key read in Search mode
Search(event) ==
    /\ pager' = handle_search_event(pager, event)
    /\ UNCHANGED files
    /\ Record(event.kind)

SearchConfirm ==
    /\ Reading("Search")
    /\ \E event \in SearchEventsRead :
          event.kind = "Confirm" /\ Search(event)

SearchChar ==
    /\ Reading("Search")
    /\ \E event \in SearchEventsRead :
          /\ event.kind = "Char"
          /\ Append(pager.search_pattern_input, event.c) \in SearchPrefixes
          /\ Search(event)

SearchCancel ==
    /\ Reading("Search")
    /\ \E event \in SearchEventsRead :
          event.kind = "Cancel" /\ Search(event)

SearchBackspace ==
    /\ Reading("Search")
    /\ \E event \in SearchEventsRead :
          event.kind = "Backspace" /\ Search(event)

SearchClearLine ==
    /\ Reading("Search")
    /\ \E event \in SearchEventsRead :
          event.kind = "ClearLine" /\ Search(event)

SearchNone ==
    /\ Reading("Search")
    /\ \E event \in SearchEventsRead :
          event.kind = "None" /\ Search(event)

Next ==
    \/ Run \/ Finish
    \/ NextDay \/ PrevDay \/ NextLine \/ PrevLine
    \/ GotoPageBegin \/ GotoPageEnd \/ Quit \/ Edit
    \/ SearchNext \/ SearchPrev \/ Resize
    \/ EnterCommandMode \/ EnterSearchMode \/ ViewNone
    \/ CommandExecute \/ CommandChar \/ CommandCancel
    \/ CommandBackspace \/ CommandClearLine \/ CommandNone
    \/ SearchConfirm \/ SearchChar \/ SearchCancel
    \/ SearchBackspace \/ SearchClearLine \/ SearchNone

Spec == Init /\ [][Next]_vars

(***************************************************************************)
(* The line index mapper on its own: Init draws a render buffer the pager  *)
(* can build, each action applies one function of utils.rs to it.          *)
(***************************************************************************)
IdlePager ==
    /\ pager = [pc |-> "idle"] /\ files = <<>>
    /\ last = [ev |-> "idle"] /\ last2 = NoView

\* the buffers of the dates of InitialFiles and of all of them together,
\* at every width, without and with a search pattern
RenderBuffers ==
    {update_colored_lines(
         [SingleDatePager_new(date, InitialFiles, columns, TallRows, FALSE)
             EXCEPT !.search_pattern = pattern]).colored_lines :
         date \in Days, columns \in Widths,
         pattern \in {<<>>, <<"a">>, <<"(">>}}
    \cup
    {update_colored_lines(
         [PagingAllPager_new(InitialFiles, columns, TallRows)
             EXCEPT !.search_pattern = pattern]).colored_lines :
         columns \in Widths, pattern \in {None, Some(<<"a">>)}}

total_non_whitespace(lines) ==
    get_char_index_by_line_index(lines, Len(lines))

MapperInit ==
    /\ lines_arg \in RenderBuffers
    /\ index_arg = 0 /\ mapper_op = "idle" /\ mapper_result = None
    /\ IdlePager /\ IdleParser /\ IdleCommand /\ IdleTwins
    /\ IdleDirectory

CharIndexOfLine ==
    /\ mapper_op = "idle"
    /\ \E line_index \in 0..(Len(lines_arg) + 1) :
          /\ index_arg' = line_index
          /\ mapper_result' =
                 Some(get_char_index_by_line_index(lines_arg, line_index))
    /\ mapper_op' = "get_char_index_by_line_index"
    /\ UNCHANGED <<lines_arg, pagerVars, parserVars, commandVars, twins,
                   directory>>

LineIndexOfChar ==
    /\ mapper_op = "idle"
    /\ \E char_index \in 0..(total_non_whitespace(lines_arg) + 1) :
          /\ index_arg' = char_index
          /\ mapper_result' =
                 get_line_index_by_char_index(lines_arg, char_index)
    /\ mapper_op' = "get_line_index_by_char_index"
    /\ UNCHANGED <<lines_arg, pagerVars, parserVars, commandVars, twins,
                   directory>>

\* get_line_index_by_char_index(lines, get_char_index_by_line_index(lines, i)),
\* which is set_begin_line_index(i) followed by begin_line_index()
LineIndexOfCharIndexOfLine ==
    /\ mapper_op = "idle"
    /\ \E line_index \in 0..(Len(lines_arg) - 1) :
          /\ index_arg' = line_index
          /\ mapper_result' =
                 get_line_index_by_char_index(lines_arg,
                     get_char_index_by_line_index(lines_arg, line_index))
    /\ mapper_op' = "inverse"
    /\ UNCHANGED <<lines_arg, pagerVars, parserVars, commandVars, twins,
                   directory>>

MapperNext == CharIndexOfLine \/ LineIndexOfChar \/ LineIndexOfCharIndexOfLine

MapperSpec == MapperInit /\ [][MapperNext]_vars

(***************************************************************************)
(* The parser and the writer on their own: Init draws a file text and a    *)
(* list of entries, the actions parse the text and write-then-parse the    *)
(* entries.                                                                *)
(***************************************************************************)
SeqsUpTo(S, n) == UNION {[1..k -> S] : k \in 0..n}

\* lines of a log file: two record starts, a plain line, an empty line, a
\* bracket that is not closed, and a bracket that holds no date
ParserLines ==
    { <<"[", "D", "1", " ", "T", "1", "]", " ", "a">>,
      <<"[", "D", "1", " ", "T", "2", "]">>,
      <<"b">>,
      <<>>,
      <<"[", "D", "1", " ", "T", "1">>,
      <<"[", "x", "]", " ", "c">> }

unlines(lines) == concat([k \in 1..Len(lines) |-> lines[k] \o <<"\n">>])

ParserTexts == {unlines(lines) : lines \in SeqsUpTo(ParserLines, MaxTextLines)}

\* entries as LogItem::new makes them: any timestamp, a trimmed text
ParserItems ==
    {LogItem_new(date_time, text) :
        date_time \in {at(1, 1), at(1, 2),
                       [date |-> 1, minute |-> 1, second |-> 1]},
        text \in { <<"a">>,
                   <<>>,
                   <<"a", "\n", "b">>,
                   <<"a", "\n", "\n", "b">>,
                   <<"a", "\r", "\n", "b">>,
                   <<"a", "\n", "[", "D", "1", " ", "T", "2", "]", " ", "b">>,
                   <<"[", "D", "1", " ", "T", "2", "]", " ", "a">> }}

\* the file the writer leaves after appending the entries in order
write_all(items) == concat([k \in 1..Len(items) |-> LogItem_fmt(items[k])])

ParserInit ==
    /\ \/ text_arg \in ParserTexts /\ items_arg = <<>>
       \/ text_arg = <<>> /\ items_arg \in SeqsUpTo(ParserItems, MaxItems)
    /\ parser_op = "idle" /\ parser_result = <<>>
    /\ IdlePager /\ IdleMapper /\ IdleCommand /\ IdleTwins
    /\ IdleDirectory

Parse ==
    /\ parser_op = "idle"
    /\ parser_op' = "from_str"
    /\ parser_result' = LogItemList_from_str(text_arg)
    /\ UNCHANGED <<text_arg, items_arg, pagerVars, mapperVars, commandVars,
                   twins, directory>>

WriteThenParse ==
    /\ parser_op = "idle"
    /\ parser_op' = "round_trip"
    /\ parser_result' = LogItemList_from_str(write_all(items_arg))
    /\ UNCHANGED <<text_arg, items_arg, pagerVars, mapperVars, commandVars,
                   twins, directory>>

ParserNext == Parse \/ WriteThenParse

ParserSpec == ParserInit /\ [][ParserNext]_vars

(***************************************************************************)
(* The command parser and the command executor on command buffers.         *)
(***************************************************************************)
MaxWords == 3        \* the most words of a command buffer

DateWord == <<"d", "a", "t", "e">>
CommandWords == {DateWord, <<"D", "3">>, <<"x">>}
WordLists == UNION {[1..n -> CommandWords] : n \in 0..MaxWords}
Blanks == {<<" ">>, <<" ", "\t">>}

RECURSIVE join(_, _)
join(words, blank) ==
    IF words = <<>> THEN <<>>
    ELSE IF Len(words) = 1 THEN words[1]
    ELSE words[1] \o blank \o join(Tail(words), blank)

\* the buffers: words, the blanks between them, blanks before and after
CommandBuffers ==
    {[words |-> words, text |-> lead \o join(words, blank) \o trail] :
        words \in WordLists, blank \in Blanks,
        lead \in {<<>>, <<" ">>}, trail \in {<<>>, <<" ">>}}

\* a single date pager in Command mode with the text typed
CommandPager(text) ==
    [enter_command_mode(
         SingleDatePager_new(Today, InitialFiles, WideCols, TallRows, FALSE))
        EXCEPT !.command_buffer = text, !.pc = "loop"]

CommandInit ==
    /\ command_arg \in CommandBuffers
    /\ command_op = "idle" /\ command_result = <<>>
    /\ IdlePager /\ IdleMapper /\ IdleParser /\ IdleTwins
    /\ IdleDirectory

ParseCommand ==
    /\ command_op = "idle"
    /\ command_result' = Command_from_str(command_arg.text)
    /\ command_op' = "from_str"
    /\ UNCHANGED <<command_arg, pagerVars, mapperVars, parserVars, twins,
                   directory>>

ExecuteCommand ==
    /\ command_op = "idle"
    /\ command_result' =
           execute_command(CommandPager(command_arg.text), InitialFiles)
    /\ command_op' = "execute_command"
    /\ UNCHANGED <<command_arg, pagerVars, mapperVars, parserVars, twins,
                   directory>>

CommandNext == ParseCommand \/ ExecuteCommand

CommandSpec == CommandInit /\ [][CommandNext]_vars

(***************************************************************************)
(* Properties of the scroll anchor under rebuilds.                         *)
(***************************************************************************)
\* C1: after a first Resize to another width and a second Resize back to
\* the width the pager had before the first, with no other event between
\* them, the pager shows the same top line of the buffer as before the first.
ScrollStabilityUnderResize ==
    (/\ ~panicked(pager)
     /\ last.ev = "Resize" /\ last2 # NoView
     /\ last2.cols = pager.terminal_total_cols)
    => /\ top_line_index(pager) = last2.top
       /\ top_line(pager) = last2.line

\* a scrolled pager resized to a width at which its top line had another
\* number, and resized back
ScrollStabilityWitness ==
    /\ ~panicked(pager)
    /\ last.ev = "Resize" /\ last2 # NoView
    /\ last2.cols = pager.terminal_total_cols
    /\ last.cols # pager.terminal_total_cols
    /\ last2.top > 0 /\ last.top # last2.top
    /\ top_line_index(pager) = last2.top

\* C2: after a rebuild of the buffer by a Resize or by the confirmation of a
\* search, the top line derived again from the anchor held before the
\* rebuild is the line of the new buffer that contains the first
\* non-whitespace character of the top line shown before the rebuild.
AnchorRebuildInvariant ==
    (last.ev \in RebuildEvents /\ last.vis >= 0)
    => get_line_index_by_char_index(pager.colored_lines, last.anchor)
           = Some(line_of_visible(pager.colored_lines, last.vis, 0))

(***************************************************************************)
(* Properties of the line index mapper, under MapperSpec.                  *)
(***************************************************************************)
\* the non-whitespace characters of the first n lines, as positions
non_whitespace_positions(lines, n) ==
    UNION {{<<l, c>> : c \in {c \in 1..Len(lines[l]) :
                                ~is_whitespace(lines[l][c])}} :
           l \in 1..min(n, Len(lines))}

count_before(lines, n) == Cardinality(non_whitespace_positions(lines, n))

\* C3: for every buffer and every line index i inside it, the line index
\* of the character index of line i is i again: set_begin_line_index(i)
\* followed by begin_line_index() gives i.
IndexInverse ==
    mapper_op = "inverse" => mapper_result = Some(index_arg)

RoundTrip ==
    parser_op = "round_trip" => parser_result = items_arg

is_record_start(line) == LogItem_from_str(line) # None

\* C6: the parser returns a collection for every text, and a line that is
\* not a record start is appended, after a newline, to the text of the
\* entry that precedes it, which stays in the result.
NonRecordLinesFolded ==
    parser_op = "from_str" =>
        LET lines == str_lines(text_arg)
            starts == {i \in 1..Len(lines) : is_record_start(lines[i])}
        IN  \A j \in 1..Len(lines) :
               (j \notin starts /\ \E i \in starts : i < j) =>
                  LET i == CHOOSE i \in starts :
                               i < j /\ \A h \in starts : h < j => h <= i
                      k == Cardinality({h \in starts : h <= i})
                      later == {h \in starts : h > i}
                      next == IF later = {} THEN Len(lines) + 1
                              ELSE CHOOSE h \in later :
                                       \A g \in later : h <= g
                      body == concat([m \in 1..(next - 1 - i) |->
                                         <<"\n">> \o lines[i + m]])
                  IN  /\ Len(parser_result) >= k
                      /\ parser_result[k]
                             = unwrap(LogItem_from_str(lines[i] \o body))

(***************************************************************************)
(* Properties of scrolling.                                                *)
(***************************************************************************)
\* C7: the top line index is never below 0; next_line changes nothing when
\* the page already ends at the last line of the buffer, prev_line changes
\* nothing when the top line is line 0.
Clamping ==
    ~panicked(pager) =>
        /\ top_line_index(pager) >= 0
        /\ (last.ev = "NextLine" /\ last.end >= last.total) =>
               /\ pager.begin_char_index = last.anchor
               /\ top_line_index(pager) = last.top
        /\ (last.ev = "PrevLine" /\ last.top = 0) =>
               /\ pager.begin_char_index = last.anchor
               /\ top_line_index(pager) = 0

\* next_line on a scrolled pager whose page ends at the last line
ClampingWitness ==
    /\ ~panicked(pager)
    /\ last.ev = "NextLine" /\ last.end = last.total /\ last.top > 0
    /\ pager.begin_char_index = last.anchor

\* C8: prev_line with the top line above 0 moves the top line up by exactly
\* one line of the buffer, next_line with the page ending before the last
\* line moves it down by exactly one, empty lines included.
SingleLineSteps ==
    ~panicked(pager) =>
        /\ (last.ev = "PrevLine" /\ last.top > 0) =>
               top_line_index(pager) = last.top - 1
        /\ (last.ev = "NextLine" /\ last.end < last.total) =>
               top_line_index(pager) = last.top + 1

\* C9: goto page begin sets the anchor to 0; goto page end sets the top
\* line to begin + (total - end) of the page before, after which the page
\* ends at the last line, next_line changes nothing and goto page end
\* again changes nothing.
GotoPageEnds ==
    ~panicked(pager) =>
        /\ last.ev = "GotoPageBegin" =>
               pager.begin_char_index = 0 /\ top_line_index(pager) = 0
        /\ last.ev = "GotoPageEnd" =>
               /\ top_line_index(pager) = last.top + (last.total - last.end)
               /\ page_range(pager).end = total_content_lines(pager)
               /\ next_line(pager) = pager
               /\ \A overflow_checks \in BOOLEAN :
                     goto_page_end(pager, overflow_checks) = pager

(***************************************************************************)
(* Properties of the change of day.                                        *)
(***************************************************************************)
\* the pager shows the entries of the file of its date, wrapped at its width
shows_its_date(self) ==
    /\ self.log_item_list
           = LogItemList_from_str(unwrap_or(read_to_string(files, self.date),
                                            <<>>))
    /\ self.colored_lines = update_colored_lines(self).colored_lines

\* C10: prev_day, and next_day on a date that is not today, move the date
\* by one day, load the entries of the new date, rebuild the buffer at the
\* current width and set the anchor to 0.
DayChange ==
    /\ (last.ev = "PrevDay" /\ pager.variant = "single") =>
           /\ pager.date = last.date - 1
           /\ shows_its_date(pager)
           /\ pager.begin_char_index = 0
    /\ (last.ev = "NextDay" /\ pager.variant = "single"
           /\ last.date # Today) =>
           /\ pager.date = last.date + 1
           /\ shows_its_date(pager)
           /\ pager.begin_char_index = 0

\* prev_day on a scrolled pager, to a day that has entries
DayChangeWitness ==
    /\ ~panicked(pager)
    /\ last.ev = "PrevDay" /\ pager.variant = "single"
    /\ last.anchor > 0
    /\ pager.log_item_list # <<>>
    /\ pager.begin_char_index = 0

(***************************************************************************)
(* C11.  Day-guard: a NextDay event handled while the active date is       *)
(* today's date leaves the date, the entries, the RenderBuffer and the     *)
(* anchor as they were, and every other field too: the only change is the  *)
(* bottom message, set to "This is already today's log".                   *)
(***************************************************************************)
DayGuard ==
    [][NextDay /\ pager.variant = "single" /\ pager.date = Today
          => /\ pager'.date = pager.date
             /\ pager'.log_item_list = pager.log_item_list
             /\ pager'.colored_lines = pager.colored_lines
             /\ pager'.begin_char_index = pager.begin_char_index
             /\ pager' = [pager EXCEPT
                             !.bottom_message = AlreadyTodayMessage]]_vars

\* the guard has refused a NextDay on a scrolled view of today's entries
DayGuardWitness ==
    /\ pager.variant = "single" /\ pager.pc = "loop"
    /\ last.ev = "NextDay" /\ last.date = Today
    /\ pager.date = Today
    /\ pager.bottom_message = AlreadyTodayMessage
    /\ pager.begin_char_index > 0
    /\ pager.log_item_list # <<>>

(***************************************************************************)
(* C12.  Mode entry: the pager starts in View mode; the mode becomes       *)
(* Command only by a `:` key handled in View mode and Search only by a `/` *)
(* key handled in View mode; and while the pager reads keys in Command or  *)
(* Search mode, typing any View-mode key (j k h l g G e n N q : /) appends *)
(* that character to the buffer of the mode and does nothing a View-mode   *)
(* key does: mode, date, entries, RenderBuffer, anchor, active pattern and *)
(* the exit flag stay as they are.                                         *)
(***************************************************************************)
UppercaseChars == {"G", "N", "D"}

\* the key events typing the character c can deliver: an uppercase letter
\* may come with the SHIFT modifier
Typed(c) ==
    {e \in CrosstermEvents :
        /\ e.type = "Key" /\ e.code = c
        /\ e.modifiers \subseteq
               (IF c \in UppercaseChars THEN {"SHIFT"} ELSE {})}

\* what a View-mode key changes
view_fields(self) ==
    <<self.mode, self.date, self.log_item_list, self.colored_lines,
      self.begin_char_index, self.search_pattern, self.is_exit, self.pc>>

StartsInView == pager.pc = "new" => pager.mode = "View"

EntersCommandByColon ==
    pager'.mode = "Command" /\ pager.mode # "Command"
        => /\ Reading("View")
           /\ \E e \in Typed(":") :
                 pager' = handle_view_event(
                              pager, ViewEvent_from_crossterm_event(e), files)

EntersSearchBySlash ==
    pager'.mode = "Search" /\ pager.mode # "Search"
        => /\ Reading("View")
           /\ \E e \in Typed("/") :
                 pager' = handle_view_event(
                              pager, ViewEvent_from_crossterm_event(e), files)

ViewKeysAreCommandText ==
    Reading("Command") =>
        \A c \in ViewKeyChars : \A e \in Typed(c) :
            LET after == handle_command_event(
                             pager, CommandEvent_from_crossterm_event(e),
                             files)
            IN  /\ after.command_buffer = Append(pager.command_buffer, c)
                /\ view_fields(after) = view_fields(pager)

ViewKeysAreSearchText ==
    Reading("Search") =>
        \A c \in ViewKeyChars : \A e \in Typed(c) :
            LET after == handle_search_event(
                             pager, SearchEvent_from_crossterm_event(e))
            IN  /\ after.search_pattern_input
                       = Append(pager.search_pattern_input, c)
                /\ view_fields(after) = view_fields(pager)

ModeEntry ==
    [][/\ StartsInView
       /\ EntersCommandByColon
       /\ EntersSearchBySlash
       /\ ViewKeysAreCommandText
       /\ ViewKeysAreSearchText]_vars

(***************************************************************************)
(* C13.  Command execution returns to View: whatever command_buffer holds  *)
(* (nothing, `date`, `date <token>`, anything else), an Enter key read in  *)
(* Command mode leaves the pager running (in its loop, not exiting) in     *)
(* View mode with an empty command_buffer.                                 *)
(***************************************************************************)
CommandExecutionReturnsToView ==
    [][CommandExecute
          => /\ pager'.pc = "loop" /\ ~pager'.is_exit
             /\ pager'.mode = "View"
             /\ pager'.command_buffer = <<>>]_vars

(***************************************************************************)
(* C14.  Cancel: Esc, or Backspace on an empty buffer, read in Command or  *)
(* in Search mode returns the pager to View mode and leaves the active     *)
(* date, the entries, the anchor, the RenderBuffer and the active search   *)
(* pattern as they were; Backspace on a non-empty buffer removes the last  *)
(* character of that buffer, changes nothing else but the bottom message   *)
(* that every key clears, and stays in the mode.                           *)
(***************************************************************************)
\* what a cancel must keep
kept_by_cancel(self) ==
    <<self.date, self.log_item_list, self.begin_char_index,
      self.colored_lines, self.search_pattern>>

CancelsCommand ==
    \/ CommandCancel
    \/ CommandBackspace /\ pager.command_buffer = <<>>

CancelsSearch ==
    \/ SearchCancel
    \/ SearchBackspace /\ pager.search_pattern_input = <<>>

Cancel ==
    [][/\ CancelsCommand \/ CancelsSearch
          => /\ pager'.mode = "View" /\ pager'.pc = "loop"
             /\ kept_by_cancel(pager') = kept_by_cancel(pager)
       /\ CommandBackspace /\ pager.command_buffer # <<>>
          => pager' = [pager EXCEPT
                          !.command_buffer = SubSeq(@, 1, Len(@) - 1),
                          !.bottom_message = NoMessage]
       /\ SearchBackspace /\ pager.search_pattern_input # <<>>
          => pager' = [pager EXCEPT
                          !.search_pattern_input = SubSeq(@, 1, Len(@) - 1),
                          !.bottom_message = NoMessage]]_vars

\* a Search has been cancelled with Esc: typed input is left in a View-mode
\* state only by that key; the view was scrolled and a pattern was active
CancelWitness ==
    /\ pager.pc = "loop" /\ pager.mode = "View"
    /\ pager.search_pattern_input # <<>>
    /\ pager.begin_char_index > 0
    /\ pager.search_pattern # <<>>

(***************************************************************************)
(* C15.  Input buffers are cleared on every mode transition: in every      *)
(* reachable state whose mode is View, command_buffer and                  *)
(* search_pattern_input are both empty, so that Command and Search mode    *)
(* are always entered with an empty buffer.                                *)
(***************************************************************************)
InputBuffersCleared ==
    pager.mode = "View" /\ pager.pc # "panicked"
        => /\ pager.command_buffer = <<>>
           /\ pager.search_pattern_input = <<>>

(***************************************************************************)
(* C16.  Search confirmation: Enter read in Search mode, with an input     *)
(* that compiles, returns to View mode with the entered pattern active and *)
(* positions the top line as search_next(skip_current = false) does on the *)
(* rebuilt buffer: at the first RenderLine at or after the current top     *)
(* line that contains a match, and so not moving when the current top line *)
(* itself contains a match.  For the single-day and the all-days pager.    *)
(***************************************************************************)
\* the pager once the input is the pattern and the buffer is rebuilt
confirmed(self) ==
    enter_view_mode(
        update_colored_lines(
            [clear_error_message(self) EXCEPT
                !.search_pattern =
                    IF self.variant = "single" THEN self.search_pattern_input
                    ELSE Regex_new(self.search_pattern_input),
                !.search_pattern_input = <<>>]))

SearchConfirmation ==
    [][SearchConfirm /\ Regex_new(pager.search_pattern_input) # None
          => /\ pager'.pc = "loop" /\ pager'.mode = "View"
             /\ pager'.search_pattern = confirmed(pager).search_pattern
             /\ pager' = Search_search_next(confirmed(pager), FALSE)
             /\ contains(top_line(confirmed(pager)), target_str)
                   => top_line_index(pager') = top_line_index(confirmed(pager))
      ]_vars

(***************************************************************************)
(* C17.  Quit is accepted from View mode only: is_exit becomes true only   *)
(* in the handling of a `q` key read in View mode, and that handling sets  *)
(* it; once it is true no further event is read: the only step left is the *)
(* end of run(), which restores the terminal and returns without a panic;  *)
(* a `q` typed in Command or in Search mode is appended to the buffer of   *)
(* the mode and does not stop the loop.                                    *)
(***************************************************************************)
ExitOnlyByQuit ==
    pager'.is_exit /\ ~pager.is_exit
        => /\ Reading("View")
           /\ \E e \in Typed("q") :
                 pager' = handle_view_event(
                              pager, ViewEvent_from_crossterm_event(e), files)

QuitSetsExit ==
    Quit => pager'.is_exit /\ pager'.pc = "loop"

NothingReadAfterExit ==
    pager.is_exit /\ pager.pc = "loop"
        => /\ Finish
           /\ pager'.pc = "done"
           /\ ~pager'.raw_mode /\ ~pager'.alternate_screen

QuitKeyIsBufferText ==
    /\ Reading("Command") =>
          \A e \in Typed("q") :
              LET after == handle_command_event(
                               pager, CommandEvent_from_crossterm_event(e),
                               files)
              IN  /\ after.command_buffer = Append(pager.command_buffer, "q")
                  /\ ~after.is_exit /\ after.pc = "loop"
    /\ Reading("Search") =>
          \A e \in Typed("q") :
              LET after == handle_search_event(
                               pager, SearchEvent_from_crossterm_event(e))
              IN  /\ after.search_pattern_input
                         = Append(pager.search_pattern_input, "q")
                  /\ ~after.is_exit /\ after.pc = "loop"

QuitFromViewOnly ==
    [][/\ ExitOnlyByQuit
       /\ QuitSetsExit
       /\ NothingReadAfterExit
       /\ QuitKeyIsBufferText]_vars

\* run() has returned after a `q` in View mode, and an earlier `q`, typed in
\* Search mode, had become the pattern
QuitFromViewOnlyWitness ==
    /\ pager.pc = "done" /\ pager.is_exit
    /\ ~pager.raw_mode /\ ~pager.alternate_screen
    /\ pager.variant = "single" /\ pager.search_pattern = <<"q">>

(***************************************************************************)
(* C18.  Page range: for the viewport height rows and the RenderBuffer of  *)
(* total lines of every reachable pager (total = 0 included), page_range   *)
(* is [top, min(total, top + max(rows - 2, 1))): its end never exceeds     *)
(* total, and with rows <= 2 it holds at most one line.                    *)
(***************************************************************************)
PageRange ==
    LET range == page_range(pager)
        top == range.begin
        total == total_content_lines(pager)
        rows == pager.terminal_total_rows
        height == IF rows - 2 > 1 THEN rows - 2 ELSE 1
    IN  /\ range.end = min(total, top + height)
        /\ range.end <= total
        /\ rows <= 2 => range.end - range.begin <= 1

(***************************************************************************)
(* C19.  Invalid search patterns keep the prior state: when the input      *)
(* confirmed with Enter does not compile as a regex, the pattern that was  *)
(* active before stays the active pattern and the RenderBuffer keeps the   *)
(* highlighting of that pattern.                                           *)
(***************************************************************************)
InvalidPatternKeepsState ==
    [][SearchConfirm /\ Regex_new(pager.search_pattern_input) = None
          => /\ pager'.search_pattern = pager.search_pattern
             /\ pager'.colored_lines = pager.colored_lines]_vars

(***************************************************************************)
(* C20.  Highlighting: in the body of every entry each non-overlapping     *)
(* non-empty match of the active pattern is replaced with a styled copy of *)
(* the matched text, and empty matches are not replaced: when the active   *)
(* pattern matches only the empty string (an empty input confirmed with    *)
(* Enter) the body is left as it is and no RenderLine holds a highlight    *)
(* marker.                                                                 *)
(***************************************************************************)
\* the compiled active pattern of either pager, None if there is none
active_pattern(self) ==
    IF self.variant = "single" THEN Regex_new(self.search_pattern)
    ELSE self.search_pattern

\* the body with its non-empty matches styled
styled_body(active, body) ==
    IF active = None THEN body
    ELSE IF unwrap(active) = <<>> THEN body
    ELSE replace_all_from(unwrap(active), body, 1)

Highlighting ==
    LET active == active_pattern(pager)
    IN  /\ \A k \in 1..Len(pager.log_item_list) :
              LET item == pager.log_item_list[k]
                  date_str == <<"[">> \o format_date_time(item.date_time)
                                  \o <<"]">>
              IN  highlight_log_item(pager, item)
                      = green(date_str) \o <<" ">>
                            \o styled_body(active, item.content)
        /\ active = Some(<<>>)
              => \A i \in 1..Len(pager.colored_lines) :
                    ~contains(pager.colored_lines[i], target_str)

(***************************************************************************)
(* C21.  Search moves: search_next(skip_current) moves the top line to the *)
(* smallest line index >= the current top (the current top + 1 if          *)
(* skip_current) whose RenderLine contains the highlight marker, and       *)
(* search_prev to the largest line index below the current top whose       *)
(* RenderLine contains it; when there is no such line the scroll position  *)
(* is unchanged.  `n` skips the current line, in both pagers.              *)
(***************************************************************************)
\* the lines of the buffer that contain the marker
marked_lines(self) ==
    {i \in 0..(total_content_lines(self) - 1) :
        contains(self.colored_lines[i + 1], target_str)}

next_marked(self, skip_current) ==
    {i \in marked_lines(self) :
        i >= top_line_index(self) + (IF skip_current THEN 1 ELSE 0)}

prev_marked(self) ==
    {i \in marked_lines(self) : i < top_line_index(self)}

\* after is self moved to the smallest line of a non-empty set of lines,
\* or self unmoved
at_first_of(after, self, candidates) ==
    /\ ~panicked(after)
    /\ IF candidates = {}
       THEN after.begin_char_index = self.begin_char_index
       ELSE /\ top_line_index(after) \in candidates
            /\ \A i \in candidates : top_line_index(after) <= i

at_last_of(after, self, candidates) ==
    /\ ~panicked(after)
    /\ IF candidates = {}
       THEN after.begin_char_index = self.begin_char_index
       ELSE /\ top_line_index(after) \in candidates
            /\ \A i \in candidates : top_line_index(after) >= i

SearchMoves ==
    [][/\ SearchNext => at_first_of(pager', pager, next_marked(pager, TRUE))
       /\ SearchPrev => at_last_of(pager', pager, prev_marked(pager))
       /\ Reading("View") /\ pager.variant = "all"
             => \A skip_current \in BOOLEAN :
                   at_first_of(Search_search_next(pager, skip_current),
                               pager, next_marked(pager, skip_current))]_vars

(***************************************************************************)
(* C22.  Status messages are transient: the handling of every input event  *)
(* (in View, Command or Search mode) starts by clearing the message, so    *)
(* after an event the bottom message is empty unless that very event set   *)
(* it: a NextDay refused on today's date, or a load of a missing file by a *)
(* verbose pager.  No message outlives the event after the one that set    *)
(* it.                                                                     *)
(***************************************************************************)
SetsAlreadyToday ==
    /\ NextDay /\ pager.date = Today
    /\ pager'.bottom_message = AlreadyTodayMessage

SetsMissingFile ==
    /\ NextDay \/ PrevDay \/ CommandExecute \/ Edit
    /\ pager'.verbose
    /\ read_to_string(files', pager'.date) = None
    /\ pager'.bottom_message = MissingFileMessage(pager'.date)

MessagesAreTransient ==
    [][pager.pc = "loop" /\ ~pager.is_exit /\ pager.variant = "single"
          => \/ pager'.bottom_message = NoMessage
             \/ SetsAlreadyToday
             \/ SetsMissingFile]_vars

\* the event after the one that set a message has cleared it
MessagesAreTransientWitness ==
    /\ pager.variant = "single" /\ pager.pc = "loop"
    /\ last.message # NoMessage
    /\ pager.bottom_message = NoMessage

(***************************************************************************)
(* C23.  Missing files: whenever the single-date pager loads a day whose   *)
(* log file is missing (at start-up for the requested date, on next or     *)
(* previous day, on a `date` command, after an edit) the entries are empty *)
(* and, when the caller requested verbose mode, the bottom message names   *)
(* the missing file.                                                       *)
(***************************************************************************)
\* self has just loaded the day self.date from the directory fs
loaded_missing_file(self, fs) ==
    read_to_string(fs, self.date) = None
        => /\ self.log_item_list = <<>>
           /\ self.verbose
                 => self.bottom_message = MissingFileMessage(self.date)

\* the steps that load a day
Loads ==
    \/ NextDay /\ pager.date # Today
    \/ PrevDay
    \/ /\ CommandExecute
       /\ Command_from_str(pager.command_buffer).kind = "SetDate"
       /\ parse_date(Command_from_str(pager.command_buffer).date_str) # None
    \/ Edit /\ ~panicked(pager')

LoadsAtStartUp ==
    pager.pc = "new" /\ pager.variant = "single"
        => loaded_missing_file(pager, files)

LoadsOnEvent ==
    (/\ pager.variant = "single"
     /\ read_to_string(files', pager'.date) = None
     /\ Loads)
        => loaded_missing_file(pager', files')

MissingFiles == [][LoadsAtStartUp /\ LoadsOnEvent]_vars

(***************************************************************************)
(* C24.  Edit hand-off: on an Edit event the single-date pager first       *)
(* leaves raw mode and the alternate screen, then runs the editor on the   *)
(* file of the active day, and once the editor has exited it reloads the   *)
(* entries, rebuilds the RenderBuffer and is back in raw mode on the       *)
(* alternate screen; while the editor runs the terminal is not in raw      *)
(* mode.                                                                   *)
(***************************************************************************)
\* the pager at the call of edit::edit_file
at_editor(self) == restore_terminal(clear_error_message(self))

EditorHasPlainTerminal ==
    ~at_editor(pager).raw_mode /\ ~at_editor(pager).alternate_screen

BackAfterEditor ==
    ~panicked(pager')
        => /\ pager'.raw_mode /\ pager'.alternate_screen
           /\ pager'.log_item_list
                  = LogItemList_from_str(
                        unwrap_or(read_to_string(files', pager'.date), <<>>))
           /\ pager'.colored_lines = update_colored_lines(pager').colored_lines

EditHandOff ==
    [][(/\ Reading("View") /\ pager.variant = "single"
        /\ Edit)
          => EditorHasPlainTerminal /\ BackAfterEditor]_vars

(***************************************************************************)
(* C25.  The terminal is restored on every exit path of run(): whenever    *)
(* the pager has stopped after run() enabled raw mode and entered the      *)
(* alternate screen (by Quit, by a failed editor hand-off or by any other  *)
(* fatal error), raw mode is disabled, the alternate screen is left and    *)
(* the cursor is shown.                                                    *)
(***************************************************************************)
TerminalRestored ==
    pager.pc \in {"done", "panicked"}
        => /\ ~pager.raw_mode
           /\ ~pager.alternate_screen
           /\ ~pager.cursor_hidden

(***************************************************************************)
(* The command grammar.                                                    *)
(***************************************************************************)
\* C26: a buffer whose words are date and a token parses to the set-date
\* command for the token, a buffer whose only word is date parses to the
\* show-date command, every other buffer parses to the no-op, parsing always
\* returns a command, and executing date with the token of a day makes that
\* day the active date.
CommandGrammar ==
    /\ command_op = "from_str" =>
           command_result =
               IF Len(command_arg.words) = 2 /\ command_arg.words[1] = DateWord
               THEN [kind |-> "SetDate", date_str |-> command_arg.words[2]]
               ELSE IF command_arg.words = <<DateWord>>
                    THEN [kind |-> "ShowDate"]
                    ELSE [kind |-> "None"]
    /\ command_op = "execute_command"
         /\ command_arg.words = <<DateWord, <<"D", "3">>>> =>
           ~panicked(command_result) /\ command_result.date = 3

CommandGrammarWitness ==
    /\ command_op = "from_str"
    /\ command_arg.words = <<DateWord, <<"D", "3">>>>
    /\ command_arg.text # join(command_arg.words, <<" ">>)
    /\ command_result = [kind |-> "SetDate", date_str |-> <<"D", "3">>]

(***************************************************************************)
(* Commands that are not recognized.                                       *)
(***************************************************************************)
unrecognized(buffer) ==
    LET command == Command_from_str(buffer)
    IN  \/ command.kind = "None"
        \/ command.kind = "SetDate" /\ parse_date(command.date_str) = None

\* C27: executing a command buffer that is no recognized command, or date
\* with a token that is no date, clears the buffer and returns to View mode
\* and changes nothing else: the date, the entries, the buffer of lines, the
\* anchor and the search pattern stay and no message is set.
UnrecognizedIgnored ==
    [][CommandExecute /\ unrecognized(pager.command_buffer)
          => pager' = [pager EXCEPT !.command_buffer = <<>>,
                                    !.mode = "View",
                                    !.bottom_message = NoMessage]]_vars

UnrecognizedIgnoredWitness ==
    /\ pager.pc = "loop" /\ pager.mode = "Command"
    /\ pager.command_buffer = <<"d", "a", "t", "e", " ", "x">>
    /\ pager.date # Today
    /\ pager.begin_char_index > 0

(***************************************************************************)
(* The keys of View mode.                                                  *)
(***************************************************************************)
bound_keys ==
    [NextLine |-> {"j", "Down"}, PrevLine |-> {"k", "Up"},
     PrevDay |-> {"h", "Left"}, NextDay |-> {"l", "Right"},
     GotoPageBegin |-> {"g"}, GotoPageEnd |-> {"G"}, Edit |-> {"e"},
     SearchNext |-> {"n"}, SearchPrev |-> {"N"},
     EnterCommandMode |-> {":"}, EnterSearchMode |-> {"/"}, Quit |-> {"q"}]

\* C28: in View mode j and Down are read as next line, k and Up as prev line,
\* h and Left as prev day, l and Right as next day, g as page begin, G as
\* page end, e as edit, n and N as search next and prev, : as Command mode,
\* / as Search mode, q as quit, every other key as no action, and a resize
\* of the terminal as Resize with its columns and rows.
ViewKeybindings ==
    Reading("View") =>
        \A e \in CrosstermEvents :
            LET event == ViewEvent_from_crossterm_event(e)
            IN  /\ e.type = "Key" =>
                    /\ \A kind \in DOMAIN bound_keys :
                           e.code \in bound_keys[kind] => event.kind = kind
                    /\ (\A kind \in DOMAIN bound_keys :
                            e.code \notin bound_keys[kind])
                           => event.kind = "None"
                /\ e.type = "Resize" =>
                       event = [kind |-> "Resize", columns |-> e.columns,
                                rows |-> e.rows]

(***************************************************************************)
(* The buffer of lines and what it is built from.                          *)
(***************************************************************************)
\* the lines are the lines of the entries in their order, built for the
\* width and the pattern of now, and the lines of an entry start with its
\* styled date
coherent(self) ==
    LET built == [k \in 1..Len(self.log_item_list) |->
                     item_lines(self, self.log_item_list[k])]
    IN  /\ self.colored_lines = update_colored_lines(self).colored_lines
        /\ self.colored_lines = concat(built)
        /\ \A k \in 1..Len(built) :
              SubSeq(Head(built[k]), 1, 2) = <<FgGreen, "[">>

\* what the lines are built from, and the lines
built_from(self) ==
    <<self.log_item_list, self.terminal_total_cols, self.search_pattern,
      self.colored_lines>>

SizeChangesOnResize ==
    (\/ pager'.terminal_total_cols # pager.terminal_total_cols
     \/ pager'.terminal_total_rows # pager.terminal_total_rows) => Resize

\* C29: after construction and after every handled event the buffer of lines
\* equals the buffer built from the entries, the width and the active search
\* pattern of that state, in the order of the entries and with every entry
\* starting a new line with its styled date; the rows and columns change
\* only on a Resize event.  A step that changes none of the entries, the
\* width, the pattern and the lines keeps the equality of the state before.
RenderBufferCoherence ==
    [][\A after \in {pager'} :
          /\ pager.pc = "new" => coherent(pager)
          /\ after.pc \in {"loop", "done"}
                 /\ built_from(after) # built_from(pager)
                 => coherent(after)
          /\ SizeChangesOnResize]_vars

RenderBufferCoherenceWitness ==
    /\ pager.pc = "loop"
    /\ last.ev = "Resize" /\ last.cols # pager.terminal_total_cols
    /\ Len(pager.log_item_list) > 1
    /\ active_pattern(pager) \notin {None, Some(<<>>)}
    /\ coherent(pager)

(***************************************************************************)
(* What the scroll anchor counts.                                          *)
(***************************************************************************)
\* C30: in every state the anchor is the number of non-whitespace characters
\* of the buffer of that state before the line displayed at the top: the
\* anchor sits on a line boundary of the current buffer.
AnchorOnLineBoundary ==
    pager.pc \in {"new", "loop", "done"} =>
        pager.begin_char_index =
            get_char_index_by_line_index(pager.colored_lines,
                                         top_line_index(pager))

(***************************************************************************)
(* How the event loop ends.                                                *)
(***************************************************************************)
\* C31: a step taken in the loop stays in the loop, or it is the step after
\* a Quit that leaves the loop; no input event aborts the loop.  (The model
\* takes every write to the terminal as succeeding, so no step of it is an
\* I/O error on render.)
LoopEndsOnlyByQuit ==
    [][pager.pc = "loop"
          => \/ pager'.pc = "loop"
             \/ pager.is_exit /\ pager'.pc = "done"]_vars

(***************************************************************************)
(* The anchor and the size of the buffer.                                  *)
(***************************************************************************)
\* C32: after every event the anchor is smaller than the number of
\* non-whitespace characters of the buffer, or the buffer is empty and the
\* anchor is 0, so that the anchor always maps to a line.
AnchorInsideBuffer ==
    pager.pc \in {"new", "loop", "done"} =>
        /\ \/ pager.begin_char_index
                  < total_non_whitespace(pager.colored_lines)
           \/ pager.colored_lines = <<>> /\ pager.begin_char_index = 0
        /\ pager.colored_lines # <<>> => begin_line_index(pager) # None

(***************************************************************************)
(* The empty buffer.                                                       *)
(***************************************************************************)
OnEmptyBuffer ==
    \/ Run
    \/ NextLine \/ PrevLine \/ GotoPageBegin \/ GotoPageEnd
    \/ SearchNext \/ SearchPrev \/ SearchConfirm

\* C33: with an empty buffer of lines, the first rendering, next and prev
\* line, goto page begin and end, search next and prev and the confirmation
\* of a search complete without abort for every height of the viewport and
\* leave the top line at 0.
EmptyBufferHandled ==
    [][pager.colored_lines = <<>> /\ pager.pc \in {"new", "loop"}
          /\ OnEmptyBuffer
          => \A after \in {pager'} :
                /\ after.pc = "loop"
                /\ after.begin_char_index = 0
                /\ top_line_index(after) = 0]_vars

(***************************************************************************)
(* The entries and the record starts of a text.                            *)
(***************************************************************************)
\* C34: parsing a text gives as many entries as the text has lines that are
\* record starts, the i-th entry has the timestamp of the i-th record start,
\* and the empty text gives no entry, also when lines that are no record
\* start come before the first record start.
EntriesMatchRecordStarts ==
    parser_op = "from_str" =>
        LET starts == SelectSeq(str_lines(text_arg), is_record_start)
        IN  /\ Len(parser_result) = Len(starts)
            /\ \A i \in 1..Len(starts) :
                  i <= Len(parser_result) =>
                      parser_result[i].date_time
                          = unwrap(LogItem_from_str(starts[i])).date_time

(***************************************************************************)
(* Leaving the pager.                                                      *)
(***************************************************************************)
\* one turn of the loop of run: the event is read in the mode of the pager
read_event(self, crossterm_event, overflow_checks, fs) ==
    IF self.mode = "View"
    THEN LET event == ViewEvent_from_crossterm_event(crossterm_event)
         IN  handle_view_event(
                 self,
                 IF event.kind = "GotoPageEnd"
                 THEN [kind |-> "GotoPageEnd",
                       overflow_checks |-> overflow_checks]
                 ELSE event,
                 fs)
    ELSE IF self.mode = "Search"
    THEN handle_search_event(
             self, SearchEvent_from_crossterm_event(crossterm_event))
    ELSE IF self.variant = "single"
    THEN handle_command_event(
             self, CommandEvent_from_crossterm_event(crossterm_event), fs)
    ELSE self

after_esc == read_event(pager, [type |-> "Key", code |-> "Esc",
                                modifiers |-> {}], TRUE, files)
after_esc_q == read_event(after_esc, [type |-> "Key", code |-> "q",
                                      modifiers |-> {}], TRUE, files)

\* C35: from every state in which the loop is running, in either pager and
\* any mode with any buffer content, the key Esc leads to or stays in View
\* mode and the key q after it sets is_exit, which ends the loop.
EscThenQuitEnds ==
    pager.pc = "loop" /\ ~pager.is_exit =>
        /\ after_esc.pc = "loop" /\ after_esc.mode = "View"
        /\ ~after_esc.is_exit
        /\ after_esc_q.pc = "loop" /\ after_esc_q.is_exit

EscThenQuitEndsWitness ==
    /\ pager.pc = "loop" /\ ~pager.is_exit
    /\ pager.mode = "Command" /\ pager.command_buffer # <<>>
    /\ after_esc.mode = "View" /\ after_esc_q.is_exit

(***************************************************************************)
(* The active date and today.                                              *)
(***************************************************************************)
\* C36: no step of the single date pager takes the active date from a date
\* that is not after today to a date after today, so a pager started on a
\* date up to today never shows a date after today.
DateNeverPassesToday ==
    [][pager.variant = "single" /\ pager.date <= Today
          => pager'.date <= Today]_vars

(***************************************************************************)
(* The all days pager and the keys it does not handle.                     *)
(***************************************************************************)
\* C37: the mode of the all days pager is View or Search before and after
\* every step, and its steps for the keys : h l e change nothing of the
\* pager and nothing of the files.
AllPagerHasNoCommandMode ==
    [][pager.variant = "all"
          => /\ pager.mode \in {"View", "Search"}
             /\ pager'.mode \in {"View", "Search"}
             /\ (EnterCommandMode \/ PrevDay \/ NextDay \/ Edit)
                    => pager' = pager /\ files' = files]_vars

AllPagerHasNoCommandModeWitness ==
    /\ pager.variant = "all" /\ pager.pc = "loop" /\ pager.mode = "View"
    /\ last.ev = "NextDay"
    /\ pager.begin_char_index > 0 /\ pager.search_pattern # None

(***************************************************************************)
(* A single date pager and an all days pager on the same entries, fed the  *)
(* same events.                                                            *)
(***************************************************************************)
\* prepare_run and the first print of run
started(self) ==
    LET printed == print_pager([self EXCEPT !.raw_mode = TRUE,
                                            !.alternate_screen = TRUE])
    IN  IF panicked(printed) THEN printed ELSE [printed EXCEPT !.pc = "loop"]

\* a directory whose only file is the file of the date
only_file(date) ==
    [d \in Days |-> IF d = date THEN InitialFiles[d] ELSE None]

SharedKeys ==
    {"j", "k", "g", "G", "/", "n", "N", "q", "Esc", "Enter", "Backspace"}
        \cup SearchChars

SharedKeyEvents ==
    {[type |-> "Key", code |-> code, modifiers |-> {}] : code \in SharedKeys}
        \cup {[type |-> "Key", code |-> "u", modifiers |-> {"CONTROL"}]}

SharedResizeEvents == {e \in CrosstermEvents : e.type = "Resize"}

\* the text typed into the search input stays a prefix of a search text
typed_within(self, crossterm_event) ==
    LET event == SearchEvent_from_crossterm_event(crossterm_event)
    IN  self.mode = "Search" /\ event.kind = "Char"
            => Append(self.search_pattern_input, event.c) \in SearchPrefixes

TwinsRunning ==
    /\ twins.single.pc = "loop" /\ ~twins.single.is_exit
    /\ twins.all.pc = "loop" /\ ~twins.all.is_exit

TwinInit ==
    /\ \E date \in {d \in Days : InitialFiles[d] # None}, size \in Sizes :
          twins = [single |-> SingleDatePager_new(
                                  date, only_file(date), size[1], size[2],
                                  FALSE),
                   all |-> PagingAllPager_new(
                               only_file(date), size[1], size[2]),
                   fs |-> only_file(date)]
    /\ IdlePager /\ IdleMapper /\ IdleParser /\ IdleCommand
    /\ IdleDirectory

TwinRun ==
    /\ twins.single.pc = "new" /\ twins.all.pc = "new"
    /\ twins' = [twins EXCEPT !.single = started(@), !.all = started(@)]
    /\ UNCHANGED <<pagerVars, mapperVars, parserVars, commandVars, directory>>

TwinRead(crossterm_event, overflow_checks) ==
    /\ typed_within(twins.single, crossterm_event)
    /\ typed_within(twins.all, crossterm_event)
    /\ twins' = [twins EXCEPT
                    !.single = read_event(@, crossterm_event,
                                          overflow_checks, twins.fs),
                    !.all = read_event(@, crossterm_event,
                                       overflow_checks, twins.fs)]
    /\ UNCHANGED <<pagerVars, mapperVars, parserVars, commandVars, directory>>

TwinKey ==
    /\ TwinsRunning
    /\ \E e \in SharedKeyEvents, overflow_checks \in BOOLEAN :
          TwinRead(e, overflow_checks)

TwinResize ==
    /\ TwinsRunning
    /\ \E e \in SharedResizeEvents : TwinRead(e, TRUE)

TwinNext == TwinRun \/ TwinKey \/ TwinResize

TwinSpec == TwinInit /\ [][TwinNext]_vars

\* C38: started on the same entries, viewport and scroll position and fed
\* the same shared events, the single date pager and the all days pager are
\* in the same mode, show the same top line and hold the same buffer of
\* highlighted lines.
TwinsAgree ==
    /\ twins.single.pc = twins.all.pc
    /\ twins.single.pc = "loop" /\ twins.all.pc = "loop"
           => /\ twins.single.mode = twins.all.mode
              /\ twins.single.log_item_list = twins.all.log_item_list
              /\ twins.single.colored_lines = twins.all.colored_lines
              /\ top_line_index(twins.single) = top_line_index(twins.all)

(***************************************************************************)
(* The entries of the all days pager and the files of the log directory.   *)
(* A directory is a function from file names to file contents; a name is   *)
(* a sequence of characters in which the extension .log is one character.  *)
(***************************************************************************)
DirNames ==
    { <<"D", "2", ".log">>, <<"D", "3", ".log">>,
      <<"D", "2", ".log", ".log">>, <<"x", ".log">>, <<"D", "3">> }

DirTexts ==
    { <<"[", "D", "2", " ", "T", "1", "]", " ", "a", "\n">>,
      <<"[", "D", "2", " ", "T", "2", "]", " ", "b">>,
      <<"c", "\n">> }

Directories == UNION {[names -> DirTexts] : names \in SUBSET DirNames}

\* get_date_from_log_file_name: replace removes every .log of the name
get_date_from_log_file_name(file_name) ==
    IF file_name = <<>> \/ file_name[Len(file_name)] # ".log" THEN None
    ELSE parse_date(SelectSeq(file_name, LAMBDA c : c # ".log"))

\* PagingAllPager::all_date, sorted: one date for every name that yields it
RECURSIVE all_date_of(_, _)
all_date_of(dir, d) ==
    IF d > MaxDay THEN <<>>
    ELSE LET names == {n \in DOMAIN dir :
                          get_date_from_log_file_name(n) = Some(d)}
         IN  [k \in 1..Cardinality(names) |-> d] \o all_date_of(dir, d + 1)

\* PagingAllPager::content on a directory of named files
content_of(dir) ==
    LET all_date == all_date_of(dir, MinDay)
    IN  concat([k \in 1..Len(all_date) |->
                   IF construct_log_file_path(all_date[k]) \in DOMAIN dir
                   THEN dir[construct_log_file_path(all_date[k])]
                   ELSE <<>>])

AggregateInit ==
    /\ \E dir \in Directories :
          directory = [files |-> dir, op |-> "idle", entries |-> <<>>]
    /\ IdlePager /\ IdleMapper /\ IdleParser /\ IdleCommand /\ IdleTwins

\* PagingAllPager::update_log_items
ReadDirectory ==
    /\ directory.op = "idle"
    /\ directory' =
           [directory EXCEPT
               !.op = "update_log_items",
               !.entries = LogItemList_from_str(content_of(directory.files))]
    /\ UNCHANGED <<pagerVars, mapperVars, parserVars, commandVars, twins>>

AggregateNext == ReadDirectory

AggregateSpec == AggregateInit /\ [][AggregateNext]_vars

\* the entries that the daily files yield when each is parsed on its own,
\* in ascending order of their dates
RECURSIVE entries_by_file(_, _)
entries_by_file(dir, d) ==
    IF d > MaxDay THEN <<>>
    ELSE (IF construct_log_file_path(d) \in DOMAIN dir
          THEN LogItemList_from_str(dir[construct_log_file_path(d)])
          ELSE <<>>) \o entries_by_file(dir, d + 1)

\* C39: the entries of the all days pager are the entries of the daily files
\* of the directory, each file parsed on its own, in ascending order of the
\* dates, whether or not a file ends with a newline; a file whose name is
\* not a date followed by .log contributes nothing.
AllDaysAggregate ==
    directory.op = "update_log_items" =>
        directory.entries = entries_by_file(directory.files, MinDay)

(***************************************************************************)
(* The assertion of Range::new.                                            *)
(***************************************************************************)
\* C40: in every state of either pager, page_range makes a range whose
\* begin is not after its end, so the assert of Range::new holds.
RangeAssertHolds ==
    /\ page_range(pager).valid
    /\ page_range(pager).begin <= page_range(pager).end

RangeAssertHoldsWitness ==
    /\ pager.pc = "loop"
    /\ pager.terminal_total_rows > 2
    /\ page_range(pager).begin > 0
    /\ page_range(pager).end = total_content_lines(pager)
    /\ page_range(pager).end
           < page_range(pager).begin + pager.terminal_total_rows - 2

====
